---- MODULE Spec2Model ----
(***************************************************************************)
(* A model of the XML parser of src/parser.rs: the grammar layer (one      *)
(* operator per production), the sink protocol and the SAX hydrator.       *)
(*                                                                         *)
(* Text is a sequence of one-character strings.  A Point is the offset of  *)
(* the cursor in `input`; the remaining text is the suffix from there.     *)
(* A parse result is a record                                              *)
(*   k  : "S" success, "F" failure, "P" partial, "X" panic                 *)
(*   pt : the cursor after the success (S, P)                              *)
(*   f  : the offset of the failure (F, P), -1 otherwise                   *)
(*   d  : the data of the success                                          *)
(*   ev : the sink calls made while computing the result, in order         *)
(*   mx : the greatest offset of a failure met while computing the result  *)
(*        (a ghost field, -1 when there was none)                          *)
(*   mo : the same, leaving out the failures inside an optional item that  *)
(*        was skipped (a ghost field)                                      *)
(***************************************************************************)
EXTENDS Integers, Sequences, FiniteSets, TLC

VARIABLES input, phase, result, prolog, frames, ret, pending, emitted,
          outcome, stack, element, attributes, nodes, rootChildren

vars == <<input, phase, result, prolog, frames, ret, pending, emitted,
          outcome, stack, element, attributes, nodes, rootChildren>>

Max(a, b) == IF a >= b THEN a ELSE b

(***************************************************************************)
(* Character classes of the lexical classifier (XmlStr / XmlChar).         *)
(***************************************************************************)
SpaceChars == {" ", "\n"}

LowerCase == <<"a", "b", "c", "d", "e", "f", "g", "h", "i", "j", "k", "l",
               "m", "n", "o", "p", "q", "r", "s", "t", "u", "v", "w", "x",
               "y", "z">>

UpperCase == <<"A", "B", "C", "D", "E", "F", "G", "H", "I", "J", "K", "L",
               "M", "N", "O", "P", "Q", "R", "S", "T", "U", "V", "W", "X",
               "Y", "Z">>

Range(q) == {q[i] : i \in DOMAIN q}

Letters == Range(LowerCase) \cup Range(UpperCase)

DecimalChars == {"0", "1", "2", "3", "4", "5", "6", "7", "8", "9"}

HexChars == DecimalChars \cup {"a", "b", "c", "d", "e", "f",
                               "A", "B", "C", "D", "E", "F"}

NcNameStartChars == Letters \cup {"_"}

NcNameChars == NcNameStartChars \cup DecimalChars \cup {"-", "."}

NameStartChars == NcNameStartChars \cup {":"}

NameChars == NcNameChars \cup {":"}

to_ascii_lowercase(c) ==
  IF c \in Range(UpperCase)
  THEN LowerCase[CHOOSE i \in DOMAIN UpperCase : UpperCase[i] = c]
  ELSE c

\* a slip: the comparison minds the case of the letters
eq_case_sensitive(s, t) == s = t

eq_ignore_ascii_case(s, t) ==
  /\ Len(s) = Len(t)
  /\ \A i \in 1..Len(s) : to_ascii_lowercase(s[i]) = to_ascii_lowercase(t[i])

(***************************************************************************)
(* Results.                                                                *)
(***************************************************************************)
success(data, point) ==
  [k |-> "S", pt |-> point, f |-> -1, d |-> data, ev |-> <<>>, mx |-> -1,
   mo |-> -1]

Failure(point) ==
  [k |-> "F", pt |-> point, f |-> point, d |-> <<>>, ev |-> <<>>,
   mx |-> point, mo |-> point]

Panic(point, why) ==
  [k |-> "X", pt |-> point, f |-> -1, d |-> why, ev |-> <<>>, mx |-> -1,
   mo |-> -1]

\* r2 was computed after r1: the sink calls and failures of r1 come first
After(r1, r2) ==
  [r2 EXCEPT !.ev = r1.ev \o r2.ev, !.mx = Max(r1.mx, r2.mx),
             !.mo = Max(r1.mo, r2.mo)]

Emit(r, e) == [r EXCEPT !.ev = r.ev \o <<e>>]

(***************************************************************************)
(* Point: the remaining text and the primitive consumers.                  *)
(***************************************************************************)
InputLen == Len(input)

starts_with(p, lit) ==
  /\ p + Len(lit) <= InputLen
  /\ \A i \in 1..Len(lit) : input[p + i] = lit[i]

slice(p, q) == SubSeq(input, p + 1, q)

\* None is -1, Some(n) is the length n of the run
consume_to(p, n) ==
  IF n < 0 THEN Failure(p) ELSE success(slice(p, p + n), p + n)

consume_literal(p, lit) ==
  IF starts_with(p, lit) THEN success(lit, p + Len(lit)) ELSE Failure(p)

\* the end of the longest run of Cls characters from p
skip_while(p, Cls) ==
  CHOOSE q \in p..InputLen :
    /\ \A i \in (p + 1)..q : input[i] \in Cls
    /\ q = InputLen \/ input[q + 1] \notin Cls

\* the first point from p on where lit starts, or -1
find(p, lit) ==
  IF \E q \in p..InputLen : starts_with(q, lit)
  THEN CHOOSE q \in p..InputLen :
         /\ starts_with(q, lit)
         /\ \A i \in p..(q - 1) : ~starts_with(i, lit)
  ELSE -1

\* the first point from p on with a Cls character after it, or -1
find_any(p, Cls) ==
  IF \E q \in p..(InputLen - 1) : input[q + 1] \in Cls
  THEN CHOOSE q \in p..(InputLen - 1) :
         /\ input[q + 1] \in Cls
         /\ \A i \in p..(q - 1) : input[i + 1] \notin Cls
  ELSE -1

\* the length of a run that starts with a First character and goes on with
\* Rest characters
end_of_start_rest(p, First, Rest) ==
  IF p < InputLen /\ input[p + 1] \in First
  THEN skip_while(p + 1, Rest) - p
  ELSE -1

end_of_space(p) == end_of_start_rest(p, SpaceChars, SpaceChars)

end_of_decimal_chars(p) == end_of_start_rest(p, DecimalChars, DecimalChars)

end_of_hex_chars(p) == end_of_start_rest(p, HexChars, HexChars)

end_of_ncname(p) == end_of_start_rest(p, NcNameStartChars, NcNameChars)

end_of_name(p) == end_of_start_rest(p, NameStartChars, NameChars)

end_of_attribute(p, quote) ==
  IF p >= InputLen \/ input[p + 1] \in {"&", "<", quote}
  THEN -1
  ELSE LET e == find_any(p, {"&", "<", quote})
       IN  IF e < 0 THEN InputLen - p ELSE e - p

\* the first point from p on where character data ends, or -1
ends_char_data(q) ==
  input[q + 1] \in {"<", "&"} \/ starts_with(q, <<"]", "]", ">">>)

find_end_of_char_data(p) ==
  IF \E q \in p..(InputLen - 1) : ends_char_data(q)
  THEN CHOOSE q \in p..(InputLen - 1) :
         /\ ends_char_data(q)
         /\ \A i \in p..(q - 1) : ~ends_char_data(i)
  ELSE -1

\* a run of character data is never empty: every successful consume advances
end_of_char_data(p) ==
  LET e == find_end_of_char_data(p)
  IN  IF e = p \/ p >= InputLen THEN -1
      ELSE IF e < 0 THEN InputLen - p
      ELSE e - p

end_of_cdata(p) ==
  LET e == find(p, <<"]", "]", ">">>) IN IF e < 0 THEN -1 ELSE e - p

end_of_comment(p) ==
  LET e == find(p, <<"-", "-">>) IN IF e < 0 THEN -1 ELSE e - p

end_of_pi_value(p) ==
  LET e == find(p, <<"?", ">">>) IN IF e < 0 THEN -1 ELSE e - p

end_of_start_tag(p) ==
  IF ~(p < InputLen /\ input[p + 1] = "<") THEN -1
  ELSE IF p + 1 < InputLen /\ input[p + 2] \in {"?", "!", "/"} THEN -1
  ELSE 1

(***************************************************************************)
(* The combinators of the Outcome algebra.                                 *)
(***************************************************************************)
\* try_parse!: a success goes on, anything else returns its failure
try_parse(r) == IF r.k = "P" THEN [r EXCEPT !.k = "F"] ELSE r

\* the more interesting failure is the one later in the input
or_else(l, r) ==
  IF l.k \in {"S", "X"} THEN l
  ELSE IF r.k \in {"S", "X"} THEN After(l, r)
  ELSE After(l, [r EXCEPT !.k = "F", !.f = Max(l.f, r.f)])

\* failure (or a partial result) becomes None at the original point
optional(r, p) ==
  IF r.k = "S" THEN [r EXCEPT !.d = <<r.d>>]
  ELSE IF r.k = "X" THEN r
  ELSE [r EXCEPT !.k = "S", !.pt = p, !.f = -1, !.d = <<>>, !.mo = -1]

\* try_resume_after_partial_failure!: r is the mandatory item that follows a
\* zero-or-more whose result was z
try_resume_after_partial_failure(z, r) ==
  IF r.k \in {"S", "X"} THEN r
  ELSE [r EXCEPT !.k = "F", !.f = IF z.k = "P" THEN Max(z.f, r.f) ELSE r.f]

\* zero_or_more stops at the first failure r of its item, met at point p, and
\* returns what it parsed so far together with that failure
zero_or_more_stop(r, p) ==
  IF r.k = "X" THEN r ELSE [r EXCEPT !.k = "P", !.pt = p, !.d = <<>>]

(***************************************************************************)
(* Sink calls.                                                             *)
(***************************************************************************)
Ev(e, a, b) == [e |-> e, a |-> a, b |-> b]

PrefixedName(prefix, local) == [prefix |-> prefix, local_part |-> local]

(***************************************************************************)
(* XmlParseExt: the consumers of the grammar.                              *)
(***************************************************************************)
consume_space(p) == consume_to(p, end_of_space(p))

consume_decimal_chars(p) == consume_to(p, end_of_decimal_chars(p))

consume_ncname(p) == consume_to(p, end_of_ncname(p))

consume_attribute_value(p, quote) == consume_to(p, end_of_attribute(p, quote))

consume_name(p) == consume_to(p, end_of_name(p))

consume_hex_chars(p) == consume_to(p, end_of_hex_chars(p))

consume_char_data(p) == consume_to(p, end_of_char_data(p))

consume_cdata(p) == consume_to(p, end_of_cdata(p))

consume_comment(p) == consume_to(p, end_of_comment(p))

consume_pi_value(p) == consume_to(p, end_of_pi_value(p))

consume_start_tag(p) == consume_to(p, end_of_start_tag(p))

parse_local(p) ==
  LET r1 == try_parse(consume_literal(p, <<":">>))
  IN  IF r1.k # "S" THEN r1 ELSE After(r1, consume_ncname(r1.pt))

consume_prefixed_name(p) ==
  LET r1 == try_parse(consume_ncname(p))
      r2 == After(r1, optional(parse_local(r1.pt), r1.pt))
  IN  IF r1.k # "S" THEN r1
      ELSE After(r2, success(IF r2.d # <<>>
                             THEN PrefixedName(<<r1.d>>, r2.d[1])
                             ELSE PrefixedName(<<>>, r1.d),
                             r2.pt))

(***************************************************************************)
(* Parser: one operator per production.  r1, r2, ... are the results of    *)
(* the items of the production in order, each with the history of the      *)
(* items before it (After); an item that does not succeed is what the      *)
(* production returns.                                                     *)
(***************************************************************************)
parse_eq(p) ==
  LET r1 == optional(consume_space(p), p)
      r2 == After(r1, try_parse(consume_literal(r1.pt, <<"=">>)))
      r3 == After(r2, optional(consume_space(r2.pt), r2.pt))
  IN  IF r2.k # "S" THEN r2 ELSE After(r3, success(<<>>, r3.pt))

version_num(p, quote) ==
  LET r1 == try_parse(consume_literal(p, <<"1", ".">>))
      r2 == After(r1, try_parse(consume_decimal_chars(r1.pt)))
  IN  IF r1.k # "S" THEN r1
      ELSE IF r2.k # "S" THEN r2
      ELSE After(r2, success(slice(p, r2.pt), r2.pt))

parse_entity_ref(p) ==
  LET r1 == try_parse(consume_literal(p, <<"&">>))
      r2 == After(r1, try_parse(consume_name(r1.pt)))
      r3 == After(r2, try_parse(consume_literal(r2.pt, <<";">>)))
  IN  IF r1.k # "S" THEN r1
      ELSE IF r2.k # "S" THEN r2
      ELSE IF r3.k # "S" THEN r3
      ELSE After(r3, success([t |-> "Entity", s |-> r2.d], r3.pt))

parse_decimal_char_ref(p) ==
  LET r1 == try_parse(consume_literal(p, <<"&", "#">>))
      r2 == After(r1, try_parse(consume_decimal_chars(r1.pt)))
      r3 == After(r2, try_parse(consume_literal(r2.pt, <<";">>)))
  IN  IF r1.k # "S" THEN r1
      ELSE IF r2.k # "S" THEN r2
      ELSE IF r3.k # "S" THEN r3
      ELSE After(r3, success([t |-> "DecimalChar", s |-> r2.d], r3.pt))

parse_hex_char_ref(p) ==
  LET r1 == try_parse(consume_literal(p, <<"&", "#", "x">>))
      r2 == After(r1, try_parse(consume_hex_chars(r1.pt)))
      r3 == After(r2, try_parse(consume_literal(r2.pt, <<";">>)))
  IN  IF r1.k # "S" THEN r1
      ELSE IF r2.k # "S" THEN r2
      ELSE IF r3.k # "S" THEN r3
      ELSE After(r3, success([t |-> "HexChar", s |-> r2.d], r3.pt))

\* a slip: the failure of the last alternative, not the most interesting one
last_failure(l, r) == IF l.k \in {"S", "X"} THEN l ELSE After(l, r)

parse_reference_last_failure(p) ==
  last_failure(last_failure(parse_entity_ref(p), parse_decimal_char_ref(p)),
               parse_hex_char_ref(p))

parse_reference(p) ==
  or_else(or_else(parse_entity_ref(p), parse_decimal_char_ref(p)),
          parse_hex_char_ref(p))

parse_comment(p) ==
  LET r1 == try_parse(consume_literal(p, <<"<", "!", "-", "-">>))
      r2 == After(r1, try_parse(consume_comment(r1.pt)))
      r3 == After(r2, try_parse(consume_literal(r2.pt, <<"-", "-", ">">>)))
  IN  IF r1.k # "S" THEN r1
      ELSE IF r2.k # "S" THEN r2
      ELSE IF r3.k # "S" THEN r3
      ELSE Emit(After(r3, success(<<>>, r3.pt)), Ev("comment", r2.d, <<>>))

parse_pi_value(p) ==
  LET r1 == try_parse(consume_space(p))
  IN  IF r1.k # "S" THEN r1 ELSE After(r1, consume_pi_value(r1.pt))

parse_pi(p) ==
  LET r1 == try_parse(consume_literal(p, <<"<", "?">>))
      r2 == After(r1, try_parse(consume_name(r1.pt)))
      r3 == After(r2, optional(parse_pi_value(r2.pt), r2.pt))
      r4 == After(r3, try_parse(consume_literal(r3.pt, <<"?", ">">>)))
  IN  IF r1.k # "S" THEN r1
      ELSE IF r2.k # "S" THEN r2
      ELSE IF r4.k # "S" THEN r4
      ELSE IF eq_ignore_ascii_case(r2.d, <<"x", "m", "l">>)
      THEN After(r4, Panic(r4.pt, "Can't use xml as a PI target"))
      ELSE Emit(After(r4, success(<<>>, r4.pt)),
                Ev("processing_instruction", r2.d, r3.d))

\* Result::map(|_| ()): the data of a success is dropped
map_unit(r) == [r EXCEPT !.d = <<>>]

\* a slip: the failure of the last kind of misc, not the most interesting one
parse_misc_last_failure(p) ==
  last_failure(last_failure(parse_comment(p), parse_pi(p)),
               map_unit(consume_space(p)))

\* a slip: character data is a misc
parse_misc_with_text(p) ==
  LET r1 == try_parse(consume_char_data(p))
  IN  or_else(or_else(or_else(parse_comment(p), parse_pi(p)),
                      map_unit(consume_space(p))),
              IF r1.k # "S" THEN r1
              ELSE Emit(After(r1, success(<<>>, r1.pt)),
                        Ev("text", r1.d, <<>>)))

parse_misc(p) ==
  or_else(or_else(parse_comment(p), parse_pi(p)),
          map_unit(consume_space(p)))

\* zero_or_more(parse_misc): z is the result so far, r the next item's
RECURSIVE parse_miscs_1(_)
parse_miscs_2(z, r) ==
  IF r.k = "S" THEN parse_miscs_1(After(z, r))
  ELSE After(z, zero_or_more_stop(r, z.pt))

parse_miscs_1(z) == parse_miscs_2(z, parse_misc(z.pt))

parse_miscs(p) == parse_miscs_1(success(<<>>, p))

parse_attribute_literal(p, quote) ==
  LET r1 == try_parse(consume_attribute_value(p, quote))
  IN  IF r1.k # "S" THEN r1
      ELSE Emit(After(r1, success(<<>>, r1.pt)),
                Ev("attribute_value", [t |-> "Literal", s |-> r1.d], <<>>))

parse_attribute_reference(p) ==
  LET r1 == try_parse(parse_reference(p))
  IN  IF r1.k # "S" THEN r1
      ELSE Emit(After(r1, success(<<>>, r1.pt)),
                Ev("attribute_value", r1.d, <<>>))

\* the zero_or_more of parse_attribute_values
RECURSIVE parse_attribute_values_1(_, _)
parse_attribute_values_2(z, r, quote) ==
  IF r.k = "S" THEN parse_attribute_values_1(After(z, r), quote)
  ELSE After(z, zero_or_more_stop(r, z.pt))

parse_attribute_values_1(z, quote) ==
  parse_attribute_values_2(z, or_else(parse_attribute_literal(z.pt, quote),
                                      parse_attribute_reference(z.pt)),
                           quote)

parse_attribute_values(p, quote) ==
  parse_attribute_values_1(success(<<>>, p), quote)

\* the closure f of parse_quoted_value: the version number of the declaration
\* or the fragments of an attribute value
call(f, p, quote) ==
  IF f = "version_num" THEN version_num(p, quote)
  ELSE parse_attribute_values(p, quote)

parse_one_quoted_value_3(r2, r3) ==
  IF r3.k # "S" THEN r3 ELSE After(r3, success(r2.d, r3.pt))

\* a slip: the closing quote is parsed with try_parse!, and the failure that
\* the fragments stopped at is lost
parse_one_quoted_value_try_parse(r2, quote) ==
  IF r2.k \in {"F", "X"} THEN r2
  ELSE parse_one_quoted_value_3(
         r2, After(r2, try_parse(consume_literal(r2.pt, <<quote>>))))

parse_one_quoted_value_2(r2, quote) ==
  IF r2.k \in {"F", "X"} THEN r2
  ELSE parse_one_quoted_value_3(
         r2, After(r2, try_resume_after_partial_failure(
                         r2, consume_literal(r2.pt, <<quote>>))))

parse_one_quoted_value_1(r1, quote, f) ==
  IF r1.k # "S" THEN r1
  ELSE parse_one_quoted_value_2(After(r1, call(f, r1.pt, quote)), quote)

parse_one_quoted_value(p, quote, f) ==
  parse_one_quoted_value_1(try_parse(consume_literal(p, <<quote>>)), quote, f)

parse_quoted_value(p, f) ==
  or_else(parse_one_quoted_value(p, "'", f),
          parse_one_quoted_value(p, "\"", f))

parse_version_info(p) ==
  LET r1 == try_parse(consume_space(p))
      r2 == After(r1, try_parse(consume_literal(
                                  r1.pt, <<"v", "e", "r", "s", "i", "o", "n">>)))
      r3 == After(r2, try_parse(parse_eq(r2.pt)))
  IN  IF r1.k # "S" THEN r1
      ELSE IF r2.k # "S" THEN r2
      ELSE IF r3.k # "S" THEN r3
      ELSE After(r3, try_parse(parse_quoted_value(r3.pt, "version_num")))

parse_xml_declaration_4(r4) ==
  IF r4.k # "S" THEN r4 ELSE After(r4, success(<<>>, r4.pt))

parse_xml_declaration_3(r3) ==
  parse_xml_declaration_4(
    After(r3, try_parse(consume_literal(r3.pt, <<"?", ">">>))))

parse_xml_declaration_2(r2) ==
  IF r2.k # "S" THEN r2
  ELSE parse_xml_declaration_3(
         After(r2, optional(consume_space(r2.pt), r2.pt)))

parse_xml_declaration_1(r1) ==
  IF r1.k # "S" THEN r1
  ELSE parse_xml_declaration_2(After(r1, try_parse(parse_version_info(r1.pt))))

parse_xml_declaration(p) ==
  parse_xml_declaration_1(
    try_parse(consume_literal(p, <<"<", "?", "x", "m", "l">>)))

\* a slip: the declaration is not optional
parse_prolog_declaration_required(p) ==
  LET r1 == try_parse(parse_xml_declaration(p))
  IN  IF r1.k # "S" THEN r1 ELSE After(r1, parse_miscs(r1.pt))

parse_prolog(p) ==
  LET r1 == optional(parse_xml_declaration(p), p)
  IN  After(r1, parse_miscs(r1.pt))

\* a slip: attribute_end is not called
parse_attribute_without_end(name, r4) ==
  IF r4.k # "S" THEN r4 ELSE After(r4, success(<<>>, r4.pt))

parse_attribute_4(name, r4) ==
  IF r4.k # "S" THEN r4
  ELSE Emit(After(r4, success(<<>>, r4.pt)), Ev("attribute_end", name, <<>>))

parse_attribute_3(name, r3) ==
  IF r3.k # "S" THEN r3
  ELSE parse_attribute_4(
         name, After(r3, try_parse(parse_quoted_value(
                                     r3.pt, "parse_attribute_values"))))

\* a slip: attribute_start is called once the = of the attribute is parsed
parse_attribute_start_late(r2) ==
  IF r2.k # "S" THEN r2
  ELSE LET r3 == After(r2, try_parse(parse_eq(r2.pt)))
       IN  parse_attribute_3(
             r2.d, IF r3.k # "S" THEN r3
                   ELSE Emit(r3, Ev("attribute_start", r2.d, <<>>)))

parse_attribute_2(r2) ==
  IF r2.k # "S" THEN r2
  ELSE parse_attribute_3(
         r2.d, After(Emit(r2, Ev("attribute_start", r2.d, <<>>)),
                     try_parse(parse_eq(r2.pt))))

parse_attribute_1(r1) ==
  IF r1.k # "S" THEN r1
  ELSE parse_attribute_2(After(r1, try_parse(consume_prefixed_name(r1.pt))))

parse_attribute(p) == parse_attribute_1(try_parse(consume_space(p)))

\* zero_or_more(parse_attribute)
RECURSIVE parse_attributes_1(_)
\* a slip: the attributes end where the attribute that failed stopped, not
\* where it started
parse_attributes_stop_at_failure(z, r) ==
  IF r.k = "S" THEN parse_attributes_1(After(z, r))
  ELSE After(z, zero_or_more_stop(r, r.pt))

parse_attributes_2(z, r) ==
  IF r.k = "S" THEN parse_attributes_1(After(z, r))
  ELSE After(z, zero_or_more_stop(r, z.pt))

parse_attributes_1(z) == parse_attributes_2(z, parse_attribute(z.pt))

parse_attributes(p) == parse_attributes_1(success(<<>>, p))

parse_element_end(p) ==
  LET r1 == try_parse(consume_literal(p, <<"<", "/">>))
      r2 == After(r1, try_parse(consume_prefixed_name(r1.pt)))
      r3 == After(r2, optional(consume_space(r2.pt), r2.pt))
      r4 == After(r3, try_parse(consume_literal(r3.pt, <<">">>)))
  IN  IF r1.k # "S" THEN r1
      ELSE IF r2.k # "S" THEN r2
      ELSE IF r4.k # "S" THEN r4
      ELSE After(r4, success(r2.d, r4.pt))

\* a slip: character data may be empty
parse_char_data_or_empty(p) ==
  LET r1 == optional(consume_char_data(p), p)
  IN  Emit(After(r1, success(<<>>, r1.pt)),
           Ev("text", IF r1.d = <<>> THEN <<>> ELSE r1.d[1], <<>>))

parse_char_data(p) ==
  LET r1 == try_parse(consume_char_data(p))
  IN  IF r1.k # "S" THEN r1
      ELSE Emit(After(r1, success(<<>>, r1.pt)), Ev("text", r1.d, <<>>))

parse_cdata(p) ==
  LET r1 == try_parse(consume_literal(
                        p, <<"<", "!", "[", "C", "D", "A", "T", "A", "[">>))
      r2 == After(r1, try_parse(consume_cdata(r1.pt)))
      r3 == After(r2, try_parse(consume_literal(r2.pt, <<"]", "]", ">">>)))
  IN  IF r1.k # "S" THEN r1
      ELSE IF r2.k # "S" THEN r2
      ELSE IF r3.k # "S" THEN r3
      ELSE Emit(After(r3, success(<<>>, r3.pt)), Ev("text", r2.d, <<>>))

parse_content_reference(p) ==
  LET r1 == try_parse(parse_reference(p))
  IN  IF r1.k # "S" THEN r1
      ELSE Emit(After(r1, success(<<>>, r1.pt)), Ev("reference", r1.d, <<>>))

parse_empty_element_tail(p) ==
  LET r1 == try_parse(consume_literal(p, <<"/", ">">>))
  IN  IF r1.k # "S" THEN r1 ELSE After(r1, success(<<>>, r1.pt))

(***************************************************************************)
(* The recursion of the grammar: parse_element is called for an element in *)
(* the content of an element.  The call stack of parse_element is the      *)
(* state variable frames, and each production on the way from an element   *)
(* to the elements in its content takes the result of the production it    *)
(* calls as an argument: e is a result of parse_element, c a result of     *)
(* the zero_or_more of parse_content.                                      *)
(***************************************************************************)
parse_rest_of_content_2(r2) == After(r2, success(<<>>, r2.pt))

parse_rest_of_content_1(r1) ==
  IF r1.k # "S" THEN r1
  ELSE parse_rest_of_content_2(
         After(r1, optional(parse_char_data(r1.pt), r1.pt)))

parse_rest_of_content(p, e) ==
  parse_rest_of_content_1(
    try_parse(or_else(or_else(or_else(or_else(e, parse_cdata(p)),
                                      parse_content_reference(p)),
                              parse_comment(p)),
                      parse_pi(p))))

\* one turn of the zero_or_more of parse_content: z is the result so far and
\* e the result of parse_element from there; the loop goes on from a success
parse_rest_of_contents(z, e) ==
  LET r == parse_rest_of_content(z.pt, e)
  IN  IF r.k = "S" THEN After(z, r) ELSE After(z, zero_or_more_stop(r, z.pt))

\* the optional character data that parse_content starts with
parse_content(p) == optional(parse_char_data(p), p)

\* a slip: only the local parts of the names are compared
parse_non_empty_element_tail_local(r3, start_name) ==
  IF r3.k # "S" THEN r3
  ELSE IF start_name.local_part # r3.d.local_part
  THEN After(r3, Panic(r3.pt, "tags do not match!"))
  ELSE After(r3, success(<<>>, r3.pt))

parse_non_empty_element_tail_3(r3, start_name) ==
  IF r3.k # "S" THEN r3
  ELSE IF start_name # r3.d THEN After(r3, Panic(r3.pt, "tags do not match!"))
  ELSE After(r3, success(<<>>, r3.pt))

parse_non_empty_element_tail_2(r2, start_name) ==
  IF r2.k \in {"F", "X"} THEN r2
  ELSE parse_non_empty_element_tail_3(
         After(r2, try_resume_after_partial_failure(
                     r2, parse_element_end(r2.pt))),
         start_name)

parse_non_empty_element_tail_1(r1, start_name, c) ==
  IF r1.k # "S" THEN r1
  ELSE parse_non_empty_element_tail_2(After(r1, c), start_name)

parse_non_empty_element_tail(p, start_name, c) ==
  parse_non_empty_element_tail_1(try_parse(consume_literal(p, <<">">>)),
                                 start_name, c)

\* the start tag of an element: a success carries the name and the result of
\* the attributes, and its point is where the tail of the element starts
parse_element_3(name, r3) ==
  IF r3.k \in {"F", "X"} THEN r3
  ELSE [After(Emit(r3, Ev("attributes_end", <<>>, <<>>)),
              optional(consume_space(r3.pt), r3.pt))
          EXCEPT !.d = [name |-> name, attributes |-> [r3 EXCEPT !.ev = <<>>]]]

\* a slip: attributes_start is called before element_start
parse_element_attributes_first(r2) ==
  IF r2.k # "S" THEN r2
  ELSE parse_element_3(
         r2.d, After(Emit(Emit(r2, Ev("attributes_start", <<>>, <<>>)),
                          Ev("element_start", r2.d, <<>>)),
                     parse_attributes(r2.pt)))

parse_element_2(r2) ==
  IF r2.k # "S" THEN r2
  ELSE parse_element_3(
         r2.d, After(Emit(Emit(r2, Ev("element_start", r2.d, <<>>)),
                          Ev("attributes_start", <<>>, <<>>)),
                     parse_attributes(r2.pt)))

parse_element_1(r1) ==
  IF r1.k # "S" THEN r1
  ELSE parse_element_2(After(r1, try_parse(consume_prefixed_name(r1.pt))))

parse_element_start(p) == parse_element_1(try_parse(consume_start_tag(p)))

\* the tail of the element is the non-empty one: parse_content is called
has_content(r4) ==
  /\ r4.k = "S"
  /\ parse_empty_element_tail(r4.pt).k # "S"
  /\ consume_literal(r4.pt, <<">">>).k = "S"

parse_element_5(name, r5) ==
  IF r5.k # "S" THEN r5
  ELSE Emit(After(r5, success(<<>>, r5.pt)), Ev("element_end", name, <<>>))

parse_element_4(r4, c) ==
  parse_element_5(
    r4.d.name,
    After(r4, try_resume_after_partial_failure(
                r4.d.attributes,
                or_else(parse_empty_element_tail(r4.pt),
                        parse_non_empty_element_tail(r4.pt, r4.d.name, c)))))

\* r4 is the result of the start tag
parse_element(r4, c) == IF r4.k # "S" THEN r4 ELSE parse_element_4(r4, c)

\* a slip: the root element is optional
parse_document_optional_root(r1, e) ==
  LET r2 == After(r1, optional(e, r1.pt))
      r3 == After(r2, optional(parse_miscs(r2.pt), r2.pt))
  IN  IF r1.k \in {"F", "X"} THEN r1
      ELSE IF r2.k # "S" THEN r2
      ELSE IF r3.k # "S" THEN r3
      ELSE After(r3, success(<<>>, r3.pt))

\* a slip: the miscs after the root element are parsed with try_parse!, and
\* the failure they stop at is the failure of the document
parse_document_strict_tail(r1, e) ==
  LET r2 == After(r1, try_resume_after_partial_failure(r1, e))
      r3 == After(r2, try_parse(parse_miscs(r2.pt)))
  IN  IF r1.k \in {"F", "X"} THEN r1
      ELSE IF r2.k # "S" THEN r2
      ELSE IF r3.k # "S" THEN r3
      ELSE After(r3, success(<<>>, r3.pt))

\* r1 is the result of parse_prolog
parse_document(r1, e) ==
  LET r2 == After(r1, try_resume_after_partial_failure(r1, e))
      r3 == After(r2, optional(parse_miscs(r2.pt), r2.pt))
  IN  IF r1.k \in {"F", "X"} THEN r1
      ELSE IF r2.k # "S" THEN r2
      ELSE IF r3.k # "S" THEN r3
      ELSE After(r3, success(<<>>, r3.pt))

(***************************************************************************)
(* decode_reference and AttributeValueBuilder.                             *)
(***************************************************************************)
DigitValue(c) ==
  CASE c = "0" -> 0 [] c = "1" -> 1 [] c = "2" -> 2 [] c = "3" -> 3
    [] c = "4" -> 4 [] c = "5" -> 5 [] c = "6" -> 6 [] c = "7" -> 7
    [] c = "8" -> 8 [] c = "9" -> 9
    [] c \in {"a", "A"} -> 10 [] c \in {"b", "B"} -> 11
    [] c \in {"c", "C"} -> 12 [] c \in {"d", "D"} -> 13
    [] c \in {"e", "E"} -> 14 [] c \in {"f", "F"} -> 15

\* a u32 is kept as two 16-bit halves <<hi, lo>>; None is <<>>: the number
\* does not fit 32 bits
Half == 65536

RECURSIVE from_str_radix(_, _, _)
from_str_radix(digits, radix, acc) ==
  IF digits = <<>> THEN acc
  ELSE LET lo == acc[2] * radix + DigitValue(Head(digits))
           hi == acc[1] * radix + (lo \div Half)
       IN  IF hi >= Half THEN <<>>
           ELSE from_str_radix(Tail(digits), radix, <<hi, lo % Half>>)

\* None is <<>>: surrogates and numbers above 0x10FFFF are no characters
from_u32(code) ==
  LET c == code[1] * Half + code[2]
  IN  IF code[1] > 16 \/ (c >= 55296 /\ c <= 57343) THEN <<>>
      ELSE <<CASE c = 34 -> "\"" [] c = 38 -> "&" [] c = 39 -> "'"
               [] c = 60 -> "<" [] c = 62 -> ">" [] c = 97 -> "a"
               [] c = 98 -> "b" [] c = 48 -> "0" [] c = 49 -> "1"
               [] OTHER -> "U+" \o ToString(c)>>

\* a slip: a numeric reference is decoded like decode_reference does, but
\* the name of an entity that is not known stands for itself
decode_reference_lenient(ref_data) ==
  IF ref_data.t \in {"DecimalChar", "HexChar"}
  THEN LET code == from_str_radix(ref_data.s,
                     IF ref_data.t = "DecimalChar" THEN 10 ELSE 16,
                     <<0, 0>>)
       IN  IF code = <<>>
           THEN [panic |-> <<"unwrap on None">>, s |-> <<>>]
           ELSE IF from_u32(code) = <<>>
           THEN [panic |-> <<"Not a valid codepoint">>, s |-> <<>>]
           ELSE [panic |-> <<>>, s |-> from_u32(code)]
  ELSE CASE ref_data.s = <<"a", "m", "p">> -> [panic |-> <<>>, s |-> <<"&">>]
         [] ref_data.s = <<"l", "t">> -> [panic |-> <<>>, s |-> <<"<">>]
         [] ref_data.s = <<"g", "t">> -> [panic |-> <<>>, s |-> <<">">>]
         [] ref_data.s = <<"a", "p", "o", "s">> ->
              [panic |-> <<>>, s |-> <<"'">>]
         [] ref_data.s = <<"q", "u", "o", "t">> ->
              [panic |-> <<>>, s |-> <<"\"">>]
         [] OTHER -> [panic |-> <<>>, s |-> ref_data.s]

\* the decoded text, or a panic
decode_reference(ref_data) ==
  IF ref_data.t \in {"DecimalChar", "HexChar"}
  THEN LET code == from_str_radix(ref_data.s,
                     IF ref_data.t = "DecimalChar" THEN 10 ELSE 16,
                     <<0, 0>>)
       IN  IF code = <<>>
           THEN [panic |-> <<"unwrap on None">>, s |-> <<>>]
           ELSE IF from_u32(code) = <<>>
           THEN [panic |-> <<"Not a valid codepoint">>, s |-> <<>>]
           ELSE [panic |-> <<>>, s |-> from_u32(code)]
  ELSE CASE ref_data.s = <<"a", "m", "p">> -> [panic |-> <<>>, s |-> <<"&">>]
         [] ref_data.s = <<"l", "t">> -> [panic |-> <<>>, s |-> <<"<">>]
         [] ref_data.s = <<"g", "t">> -> [panic |-> <<>>, s |-> <<">">>]
         [] ref_data.s = <<"a", "p", "o", "s">> ->
              [panic |-> <<>>, s |-> <<"'">>]
         [] ref_data.s = <<"q", "u", "o", "t">> ->
              [panic |-> <<>>, s |-> <<"\"">>]
         [] OTHER -> [panic |-> <<"unknown entity">>, s |-> <<>>]

\* a slip: each fragment is put before the value so far
RECURSIVE ingest_prepend(_, _)
ingest_prepend(value, values) ==
  IF values = <<>> THEN [panic |-> <<>>, s |-> value]
  ELSE LET v == Head(values)
       IN  IF v.t = "Literal" THEN ingest_prepend(v.s \o value, Tail(values))
           ELSE LET dr == decode_reference(v)
                IN  IF dr.panic # <<>> THEN dr
                    ELSE ingest_prepend(dr.s \o value, Tail(values))

\* AttributeValueBuilder::ingest: appends each fragment to the value
RECURSIVE ingest(_, _)
ingest(value, values) ==
  IF values = <<>> THEN [panic |-> <<>>, s |-> value]
  ELSE LET v == Head(values)
       IN  IF v.t = "Literal" THEN ingest(value \o v.s, Tail(values))
           ELSE LET dr == decode_reference(v)
                IN  IF dr.panic # <<>> THEN dr
                    ELSE ingest(value \o dr.s, Tail(values))

\* AttributeValueBuilder::convert: a new builder, ingest, implode
convert(values) == ingest(<<>>, values)

(***************************************************************************)
(* The document builder (dom4): nodes live in an arena, a node is known by *)
(* its index; parent 0 is the root of the document, -1 is no parent.       *)
(***************************************************************************)
NewNode(type, name, text, value) ==
  [type |-> type, name |-> name, preferred_prefix |-> <<>>, text |-> text,
   value |-> value, attrs |-> <<>>, prefixes |-> <<>>, parent |-> -1,
   children |-> <<>>]

QName(ns, local) == [ns |-> ns, local |-> local]

Last(q) == q[Len(q)]

\* the URI of the last registration of the prefix on this element
RECURSIVE lookup_prefix(_, _)
lookup_prefix(prefixes, prefix) ==
  IF prefixes = <<>> THEN <<>>
  ELSE IF Last(prefixes).prefix = prefix THEN <<Last(prefixes).uri>>
  ELSE lookup_prefix(SubSeq(prefixes, 1, Len(prefixes) - 1), prefix)

\* Element::namespace_uri_for_prefix: this element, then its ancestors
RECURSIVE element_namespace_uri_for_prefix(_, _, _)
element_namespace_uri_for_prefix(nds, id, prefix) ==
  LET here == lookup_prefix(nds[id].prefixes, prefix)
  IN  IF here # <<>> THEN here
      ELSE IF nds[id].parent > 0
      THEN element_namespace_uri_for_prefix(nds, nds[id].parent, prefix)
      ELSE <<>>

\* Element::set_attribute_value: one attribute per qualified name
RECURSIVE set_attribute_value(_, _)
set_attribute_value(attrs, attr) ==
  IF attrs = <<>> THEN <<attr>>
  ELSE IF Head(attrs).name = attr.name THEN <<attr>> \o Tail(attrs)
  ELSE <<Head(attrs)>> \o set_attribute_value(Tail(attrs), attr)

(***************************************************************************)
(* SaxHydrator.  A hydrator h is the record of stack, element, attributes, *)
(* nodes and rootChildren; a method returns the hydrator it leaves and the *)
(* panic it raised, if any.                                                *)
(***************************************************************************)
Hydrator ==
  [stack |-> stack, element |-> element, attributes |-> attributes,
   nodes |-> nodes, rootChildren |-> rootChildren]

Done(h) == [h |-> h, panic |-> <<>>]

Abort(h, why) == [h |-> h, panic |-> <<why>>]

\* a slip: a prefix that no open element binds is bound to the empty URI
namespace_uri_or_empty(h, prefix) ==
  IF h.stack = <<>> THEN <<<<>>>>
  ELSE LET ns_uri == element_namespace_uri_for_prefix(h.nodes, Last(h.stack),
                                                      prefix)
       IN  IF ns_uri = <<>> THEN <<<<>>>> ELSE ns_uri

namespace_uri_for_prefix(h, prefix) ==
  IF h.stack = <<>> THEN <<>>
  ELSE element_namespace_uri_for_prefix(h.nodes, Last(h.stack), prefix)

\* a slip: the node is appended to the root of the document, whatever
\* element is open
append_to_root(h, node) ==
  [h EXCEPT !.nodes = Append(h.nodes, [node EXCEPT !.parent = 0]),
            !.rootChildren = Append(h.rootChildren, Len(h.nodes) + 1)]

\* creates the node and appends it to the open element, or to the root
append_to_either(h, node) ==
  LET id == Len(h.nodes) + 1
  IN  IF h.stack = <<>>
      THEN [h EXCEPT !.nodes = Append(h.nodes, [node EXCEPT !.parent = 0]),
                     !.rootChildren = Append(h.rootChildren, id)]
      ELSE LET parent == Last(h.stack)
           IN  [h EXCEPT !.nodes =
                  Append([h.nodes EXCEPT ![parent].children =
                            Append(h.nodes[parent].children, id)],
                         [node EXCEPT !.parent = parent])]

\* current_element() panics when no element is open
append_text(h, node) ==
  IF h.stack = <<>> THEN Abort(h, "No element to append to")
  ELSE Done(append_to_either(h, node))

\* a slip: the element is created when it starts, before its attributes and
\* the namespaces they declare are known
hydrator_element_start_eager(h, name) ==
  Done([append_to_either(
          h, NewNode("element", QName(<<>>, name.local_part), <<>>, <<>>))
          EXCEPT !.element = <<name>>])

hydrator_element_start(h, name) == Done([h EXCEPT !.element = <<name>>])

hydrator_element_end(h, name) ==
  Done([h EXCEPT !.stack = IF h.stack = <<>> THEN <<>>
                           ELSE SubSeq(h.stack, 1, Len(h.stack) - 1)])

hydrator_comment(h, text) ==
  Done(append_to_either(h, NewNode("comment", <<>>, text, <<>>)))

hydrator_processing_instruction(h, target, value) ==
  Done(append_to_either(h, NewNode("pi", <<>>, target, value)))

hydrator_text(h, text) == append_text(h, NewNode("text", <<>>, text, <<>>))

hydrator_reference(h, reference) ==
  LET dr == decode_reference(reference)
  IN  IF dr.panic # <<>> THEN Abort(h, dr.panic[1])
      ELSE append_text(h, NewNode("text", <<>>, dr.s, <<>>))

hydrator_attributes_start(h) == Done(h)

hydrator_attribute_start(h, name) ==
  Done([h EXCEPT !.attributes =
          Append(h.attributes, [name |-> name, values |-> <<>>])])

hydrator_attribute_value(h, value) ==
  IF h.attributes = <<>> THEN Abort(h, "unwrap on None")
  ELSE Done([h EXCEPT !.attributes[Len(h.attributes)].values =
               Append(h.attributes[Len(h.attributes)].values, value)])

hydrator_attribute_end(h, name) == Done(h)

Xmlns == <<"x", "m", "l", "n", "s">>

\* the namespace declarations have the prefix xmlns
is_namespace_declaration(attr) == attr.name.prefix = <<Xmlns>>

\* new_prefix_mappings: the declarations of the element, in order; a later
\* insert of the same prefix replaces the earlier one (see lookup_prefix)
RECURSIVE build_prefix_mappings(_, _)
build_prefix_mappings(namespaces, acc) ==
  IF namespaces = <<>> THEN [panic |-> <<>>, m |-> acc]
  ELSE LET value == convert(Head(namespaces).values)
       IN  IF value.panic # <<>> THEN [panic |-> value.panic, m |-> acc]
           ELSE build_prefix_mappings(Tail(namespaces),
                  Append(acc, [prefix |-> Head(namespaces).name.local_part,
                               uri |-> value.s]))

\* a slip: the prefix is looked up on the open elements first
resolve_prefix_ancestors_first(h, new_prefix_mappings, prefix) ==
  LET ns_uri == namespace_uri_for_prefix(h, prefix)
  IN  IF ns_uri # <<>> THEN ns_uri
      ELSE lookup_prefix(new_prefix_mappings, prefix)

\* the prefix is looked up on the element first, then on the open elements
resolve_prefix(h, new_prefix_mappings, prefix) ==
  LET ns_uri == lookup_prefix(new_prefix_mappings, prefix)
  IN  IF ns_uri # <<>> THEN ns_uri ELSE namespace_uri_for_prefix(h, prefix)

\* the loop over the ordinary attributes of attributes_end
RECURSIVE set_attributes(_, _, _, _)
set_attributes(h, id, new_prefix_mappings, attrs) ==
  IF attrs = <<>> THEN Done(h)
  ELSE LET attribute == Head(attrs)
           value == ingest(<<>>, attribute.values)
       IN  IF value.panic # <<>> THEN Abort(h, value.panic[1])
           ELSE IF attribute.name.prefix # <<>>
           THEN LET prefix == attribute.name.prefix[1]
                    ns_uri == resolve_prefix(h, new_prefix_mappings, prefix)
                IN  IF ns_uri = <<>>
                    THEN Abort(h, "Unknown namespace prefix")
                    ELSE set_attributes(
                           [h EXCEPT !.nodes[id].attrs =
                              set_attribute_value(h.nodes[id].attrs,
                                [name |-> QName(ns_uri,
                                                attribute.name.local_part),
                                 value |-> value.s,
                                 preferred_prefix |-> <<prefix>>])],
                           id, new_prefix_mappings, Tail(attrs))
           ELSE set_attributes(
                  [h EXCEPT !.nodes[id].attrs =
                     set_attribute_value(h.nodes[id].attrs,
                       [name |-> QName(<<>>, attribute.name.local_part),
                        value |-> value.s,
                        preferred_prefix |-> <<>>])],
                  id, new_prefix_mappings, Tail(attrs))

hydrator_attributes_end(h) ==
  IF h.element = <<>> THEN Abort(h, "unwrap on None") ELSE
  LET deferred_element == h.element[1]
      deferred_attributes == h.attributes
      h1 == [h EXCEPT !.element = <<>>, !.attributes = <<>>]
      namespaces == SelectSeq(deferred_attributes, is_namespace_declaration)
      ordinary == SelectSeq(deferred_attributes,
                            LAMBDA a : ~is_namespace_declaration(a))
      mappings == build_prefix_mappings(namespaces, <<>>)
  IN  IF mappings.panic # <<>> THEN Abort(h1, mappings.panic[1]) ELSE
      LET new_prefix_mappings == mappings.m
          ns_uri == IF deferred_element.prefix = <<>> THEN <<>>
                    ELSE resolve_prefix(h1, new_prefix_mappings,
                                        deferred_element.prefix[1])
      IN  IF deferred_element.prefix # <<>> /\ ns_uri = <<>>
          THEN Abort(h1, "Unknown namespace prefix")
          ELSE
          LET node == [NewNode("element",
                               QName(ns_uri, deferred_element.local_part),
                               <<>>, <<>>)
                         EXCEPT !.preferred_prefix = deferred_element.prefix,
                                !.prefixes = new_prefix_mappings]
              h2 == append_to_either(h1, node)
              id == Len(h2.nodes)
              h3 == [h2 EXCEPT !.stack = Append(h2.stack, id)]
          IN  set_attributes(h3, id, new_prefix_mappings, ordinary)

(***************************************************************************)
(* The inputs: the documents of the tests of src/parser.rs and documents   *)
(* around them, and every concatenation of at most MaxChunks chunks.       *)
(***************************************************************************)
MaxChunks == 3

Chunks == {
  \* <a>
  <<"<", "a", ">">>,
  \* </a>
  <<"<", "/", "a", ">">>,
  \* <n:b
  <<"<", "n", ":", "b">>,
  \*  xmlns:n='u'
  <<" ", "x", "m", "l", "n", "s", ":", "n", "=", "'", "u", "'">>,
  \*  n:x="v&amp;"
  <<" ", "n", ":", "x", "=", "\"", "v", "&", "a", "m", "p", ";", "\"">>,
  \* />
  <<"/", ">">>,
  \* >
  <<">">>,
  \* </n:b>
  <<"<", "/", "n", ":", "b", ">">>,
  \* t&lt;
  <<"t", "&", "l", "t", ";">>,
  \* <?xml p?>
  <<"<", "?", "x", "m", "l", " ", "p", "?", ">">>,
  \* <!--c-->
  <<"<", "!", "-", "-", "c", "-", "-", ">">>,
  \* <a x='1\n
  <<"<", "a", " ", "x", "=", "'", "1", "\n">>
}

RECURSIVE Concatenations(_)
Concatenations(n) ==
  IF n = 0 THEN {<<>>}
  ELSE LET shorter == Concatenations(n - 1)
       IN  shorter \cup {s \o c : s \in shorter, c \in Chunks}

Samples == {
  \* <a x='1'>t&amp;<b y="2"/></a>
  <<"<", "a", " ", "x", "=", "'", "1", "'", ">", "t", "&", "a", "m", "p",
    ";", "<", "b", " ", "y", "=", "\"", "2", "\"", "/", ">", "<", "/", "a",
    ">">>,
  \* <a><!----><![CDATA[]]><?p ?></a>
  <<"<", "a", ">", "<", "!", "-", "-", "-", "-", ">", "<", "!", "[", "C",
    "D", "A", "T", "A", "[", "]", "]", ">", "<", "?", "p", " ", "?", ">",
    "<", "/", "a", ">">>,
  \* <a><![CDATA[&lt;]]>&lt;<b/>t</a>
  <<"<", "a", ">", "<", "!", "[", "C", "D", "A", "T", "A", "[", "&", "l",
    "t", ";", "]", "]", ">", "&", "l", "t", ";", "<", "b", "/", ">", "t",
    "<", "/", "a", ">">>,
  \* <a>&gt;&apos;&quot;&amp;</a>
  <<"<", "a", ">", "&", "g", "t", ";", "&", "a", "p", "o", "s", ";", "&",
    "q", "u", "o", "t", ";", "&", "a", "m", "p", ";", "<", "/", "a", ">">>,
  \* <a x='&gt;&apos;&quot;&lt;'/>
  <<"<", "a", " ", "x", "=", "'", "&", "g", "t", ";", "&", "a", "p", "o",
    "s", ";", "&", "q", "u", "o", "t", ";", "&", "l", "t", ";", "'", "/",
    ">">>,
  \* <a>&#x10FFFF;</a>
  <<"<", "a", ">", "&", "#", "x", "1", "0", "F", "F", "F", "F", ";", "<",
    "/", "a", ">">>,
  \* <a>&#x110000;</a>
  <<"<", "a", ">", "&", "#", "x", "1", "1", "0", "0", "0", "0", ";", "<",
    "/", "a", ">">>,
  \* <a x='&#xDFFF;'/>
  <<"<", "a", " ", "x", "=", "'", "&", "#", "x", "D", "F", "F", "F", ";",
    "'", "/", ">">>,
  \* <a>&#4294967296;</a>
  <<"<", "a", ">", "&", "#", "4", "2", "9", "4", "9", "6", "7", "2", "9",
    "6", ";", "<", "/", "a", ">">>,
  \* <a>&#4294967295;</a>
  <<"<", "a", ">", "&", "#", "4", "2", "9", "4", "9", "6", "7", "2", "9",
    "5", ";", "<", "/", "a", ">">>,
  \* <a x="&#55295;"/>
  <<"<", "a", " ", "x", "=", "\"", "&", "#", "5", "5", "2", "9", "5", ";",
    "\"", "/", ">">>,
  \* <a>&#0;</a>
  <<"<", "a", ">", "&", "#", "0", ";", "<", "/", "a", ">">>,
  \* <a x='1&amp;2' y="3"/>
  <<"<", "a", " ", "x", "=", "'", "1", "&", "a", "m", "p", ";", "2", "'",
    " ", "y", "=", "\"", "3", "\"", "/", ">">>,
  \* <?xml version=1.0?><a/>
  <<"<", "?", "x", "m", "l", " ", "v", "e", "r", "s", "i", "o", "n", "=",
    "1", ".", "0", "?", ">", "<", "a", "/", ">">>,
  \* <?xml version='1.0' encoding='UTF-8'?><a/>
  <<"<", "?", "x", "m", "l", " ", "v", "e", "r", "s", "i", "o", "n", "=",
    "'", "1", ".", "0", "'", " ", "e", "n", "c", "o", "d", "i", "n", "g",
    "=", "'", "U", "T", "F", "-", "8", "'", "?", ">", "<", "a", "/", ">">>,
  \* <?xml-stylesheet href='a'?><a/>
  <<"<", "?", "x", "m", "l", "-", "s", "t", "y", "l", "e", "s", "h", "e",
    "e", "t", " ", "h", "r", "e", "f", "=", "'", "a", "'", "?", ">", "<",
    "a", "/", ">">>,
  \* <?xml<a/>?>
  <<"<", "?", "x", "m", "l", "<", "a", "/", ">", "?", ">">>,
  \* <?xml version='2.0'?><a/>
  <<"<", "?", "x", "m", "l", " ", "v", "e", "r", "s", "i", "o", "n", "=",
    "'", "2", ".", "0", "'", "?", ">", "<", "a", "/", ">">>,
  \* <?xml version='1.0' ?><hello />
  <<"<", "?", "x", "m", "l", " ", "v", "e", "r", "s", "i", "o", "n", "=",
    "'", "1", ".", "0", "'", " ", "?", ">", "<", "h", "e", "l", "l", "o",
    " ", "/", ">">>,
  \* <?xml version="1.0" ?><hello />
  <<"<", "?", "x", "m", "l", " ", "v", "e", "r", "s", "i", "o", "n", "=",
    "\"", "1", ".", "0", "\"", " ", "?", ">", "<", "h", "e", "l", "l", "o",
    " ", "/", ">">>,
  \* <hello />
  <<"<", "h", "e", "l", "l", "o", " ", "/", ">">>,
  \* <ns:hello xmlns:ns='namespace'/>
  <<"<", "n", "s", ":", "h", "e", "l", "l", "o", " ", "x", "m", "l", "n",
    "s", ":", "n", "s", "=", "'", "n", "a", "m", "e", "s", "p", "a", "c",
    "e", "'", "/", ">">>,
  \* <hello scope='world'/>
  <<"<", "h", "e", "l", "l", "o", " ", "s", "c", "o", "p", "e", "=", "'",
    "w", "o", "r", "l", "d", "'", "/", ">">>,
  \* <hello scope="world"/>
  <<"<", "h", "e", "l", "l", "o", " ", "s", "c", "o", "p", "e", "=", "\"",
    "w", "o", "r", "l", "d", "\"", "/", ">">>,
  \* <hello scope='world' happy='true'/>
  <<"<", "h", "e", "l", "l", "o", " ", "s", "c", "o", "p", "e", "=", "'",
    "w", "o", "r", "l", "d", "'", " ", "h", "a", "p", "p", "y", "=", "'",
    "t", "r", "u", "e", "'", "/", ">">>,
  \* <hello ns:a='b' xmlns:ns='namespace'/>
  <<"<", "h", "e", "l", "l", "o", " ", "n", "s", ":", "a", "=", "'", "b",
    "'", " ", "x", "m", "l", "n", "s", ":", "n", "s", "=", "'", "n", "a",
    "m", "e", "s", "p", "a", "c", "e", "'", "/", ">">>,
  \* <log msg='I &lt;3 math' />
  <<"<", "l", "o", "g", " ", "m", "s", "g", "=", "'", "I", " ", "&", "l",
    "t", ";", "3", " ", "m", "a", "t", "h", "'", " ", "/", ">">>,
  \* <hello></hello>
  <<"<", "h", "e", "l", "l", "o", ">", "<", "/", "h", "e", "l", "l", "o",
    ">">>,
  \* <hello><world/></hello>
  <<"<", "h", "e", "l", "l", "o", ">", "<", "w", "o", "r", "l", "d", "/",
    ">", "<", "/", "h", "e", "l", "l", "o", ">">>,
  \* <hello><awesome><world/></awesome></hello>
  <<"<", "h", "e", "l", "l", "o", ">", "<", "a", "w", "e", "s", "o", "m",
    "e", ">", "<", "w", "o", "r", "l", "d", "/", ">", "<", "/", "a", "w",
    "e", "s", "o", "m", "e", ">", "<", "/", "h", "e", "l", "l", "o", ">">>,
  \* <ns1:hello xmlns:ns1='outer'><ns2:world xmlns:ns2='inner'/></ns1:hello>
  <<"<", "n", "s", "1", ":", "h", "e", "l", "l", "o", " ", "x", "m", "l",
    "n", "s", ":", "n", "s", "1", "=", "'", "o", "u", "t", "e", "r", "'",
    ">", "<", "n", "s", "2", ":", "w", "o", "r", "l", "d", " ", "x", "m",
    "l", "n", "s", ":", "n", "s", "2", "=", "'", "i", "n", "n", "e", "r",
    "'", "/", ">", "<", "/", "n", "s", "1", ":", "h", "e", "l", "l", "o",
    ">">>,
  \* <ns1:hello xmlns:ns1='outer'><ns1:world/></ns1:hello>
  <<"<", "n", "s", "1", ":", "h", "e", "l", "l", "o", " ", "x", "m", "l",
    "n", "s", ":", "n", "s", "1", "=", "'", "o", "u", "t", "e", "r", "'",
    ">", "<", "n", "s", "1", ":", "w", "o", "r", "l", "d", "/", ">", "<",
    "/", "n", "s", "1", ":", "h", "e", "l", "l", "o", ">">>,
  \* <hello><world name='Earth'/></hello>
  <<"<", "h", "e", "l", "l", "o", ">", "<", "w", "o", "r", "l", "d", " ",
    "n", "a", "m", "e", "=", "'", "E", "a", "r", "t", "h", "'", "/", ">",
    "<", "/", "h", "e", "l", "l", "o", ">">>,
  \* <hello xmlns:ns1='outer'><world ns1:name='Earth'/></hello>
  <<"<", "h", "e", "l", "l", "o", " ", "x", "m", "l", "n", "s", ":", "n",
    "s", "1", "=", "'", "o", "u", "t", "e", "r", "'", ">", "<", "w", "o",
    "r", "l", "d", " ", "n", "s", "1", ":", "n", "a", "m", "e", "=", "'",
    "E", "a", "r", "t", "h", "'", "/", ">", "<", "/", "h", "e", "l", "l",
    "o", ">">>,
  \* <hello>world</hello>
  <<"<", "h", "e", "l", "l", "o", ">", "w", "o", "r", "l", "d", "<", "/",
    "h", "e", "l", "l", "o", ">">>,
  \* <words><![CDATA[I have & and < !]]></words>
  <<"<", "w", "o", "r", "d", "s", ">", "<", "!", "[", "C", "D", "A", "T",
    "A", "[", "I", " ", "h", "a", "v", "e", " ", "&", " ", "a", "n", "d",
    " ", "<", " ", "!", "]", "]", ">", "<", "/", "w", "o", "r", "d", "s",
    ">">>,
  \* <hello><!-- A comment --></hello>
  <<"<", "h", "e", "l", "l", "o", ">", "<", "!", "-", "-", " ", "A", " ",
    "c", "o", "m", "m", "e", "n", "t", " ", "-", "-", ">", "<", "/", "h",
    "e", "l", "l", "o", ">">>,
  \* <!-- A comment --><hello />
  <<"<", "!", "-", "-", " ", "A", " ", "c", "o", "m", "m", "e", "n", "t",
    " ", "-", "-", ">", "<", "h", "e", "l", "l", "o", " ", "/", ">">>,
  \* \n<!--Comment 1-->\n<!--Comment 2-->\n<hello />
  <<"\n", "<", "!", "-", "-", "C", "o", "m", "m", "e", "n", "t", " ", "1",
    "-", "-", ">", "\n", "<", "!", "-", "-", "C", "o", "m", "m", "e", "n",
    "t", " ", "2", "-", "-", ">", "\n", "<", "h", "e", "l", "l", "o", " ",
    "/", ">">>,
  \* \n<hello />\n<!--Comment 1-->\n<!--Comment 2-->
  <<"\n", "<", "h", "e", "l", "l", "o", " ", "/", ">", "\n", "<", "!", "-",
    "-", "C", "o", "m", "m", "e", "n", "t", " ", "1", "-", "-", ">", "\n",
    "<", "!", "-", "-", "C", "o", "m", "m", "e", "n", "t", " ", "2", "-",
    "-", ">">>,
  \* <hello><?device?></hello>
  <<"<", "h", "e", "l", "l", "o", ">", "<", "?", "d", "e", "v", "i", "c",
    "e", "?", ">", "<", "/", "h", "e", "l", "l", "o", ">">>,
  \* \n<?output printer?>\n<hello />\n<?validated?>
  <<"\n", "<", "?", "o", "u", "t", "p", "u", "t", " ", "p", "r", "i", "n",
    "t", "e", "r", "?", ">", "\n", "<", "h", "e", "l", "l", "o", " ", "/",
    ">", "\n", "<", "?", "v", "a", "l", "i", "d", "a", "t", "e", "d", "?",
    ">">>,
  \* <math>2 &#62; 1</math>
  <<"<", "m", "a", "t", "h", ">", "2", " ", "&", "#", "6", "2", ";", " ",
    "1", "<", "/", "m", "a", "t", "h", ">">>,
  \* <math>1 &#x3c; 2</math>
  <<"<", "m", "a", "t", "h", ">", "1", " ", "&", "#", "x", "3", "c", ";",
    " ", "2", "<", "/", "m", "a", "t", "h", ">">>,
  \* <math>I &lt;3 math</math>
  <<"<", "m", "a", "t", "h", ">", "I", " ", "&", "l", "t", ";", "3", " ",
    "m", "a", "t", "h", "<", "/", "m", "a", "t", "h", ">">>,
  \* <hello>to <!--fixme--><a><![CDATA[the]]></a><?world?></hello>
  <<"<", "h", "e", "l", "l", "o", ">", "t", "o", " ", "<", "!", "-", "-",
    "f", "i", "x", "m", "e", "-", "-", ">", "<", "a", ">", "<", "!", "[",
    "C", "D", "A", "T", "A", "[", "t", "h", "e", "]", "]", ">", "<", "/",
    "a", ">", "<", "?", "w", "o", "r", "l", "d", "?", ">", "<", "/", "h",
    "e", "l", "l", "o", ">">>,
  \* hi />
  <<"h", "i", " ", "/", ">">>,
  \* <hi
  <<"<", "h", "i">>,
  \* <hi / >
  <<"<", "h", "i", " ", "/", " ", ">">>,
  \* <hi oops=value' />
  <<"<", "h", "i", " ", "o", "o", "p", "s", "=", "v", "a", "l", "u", "e",
    "'", " ", "/", ">">>,
  \* <hi oops='value />
  <<"<", "h", "i", " ", "o", "o", "p", "s", "=", "'", "v", "a", "l", "u",
    "e", " ", "/", ">">>,
  \* <hi oops='value
  <<"<", "h", "i", " ", "o", "o", "p", "s", "=", "'", "v", "a", "l", "u",
    "e">>,
  \* <hi><oops</hi>
  <<"<", "h", "i", ">", "<", "o", "o", "p", "s", "<", "/", "h", "i", ">">>,
  \* <hi><oops / ></hi>
  <<"<", "h", "i", ">", "<", "o", "o", "p", "s", " ", "/", " ", ">", "<",
    "/", "h", "i", ">">>,
  \* <hi>Entity: &;</hi>
  <<"<", "h", "i", ">", "E", "n", "t", "i", "t", "y", ":", " ", "&", ";",
    "<", "/", "h", "i", ">">>,
  \* <hi><bye>Entity: &;</bye></hi>
  <<"<", "h", "i", ">", "<", "b", "y", "e", ">", "E", "n", "t", "i", "t",
    "y", ":", " ", "&", ";", "<", "/", "b", "y", "e", ">", "<", "/", "h",
    "i", ">">>,
  \* <hi><bye oops=value' /></hi>
  <<"<", "h", "i", ">", "<", "b", "y", "e", " ", "o", "o", "p", "s", "=",
    "v", "a", "l", "u", "e", "'", " ", "/", ">", "<", "/", "h", "i", ">">>,
  \* <hi><bye oops='value /></hi>
  <<"<", "h", "i", ">", "<", "b", "y", "e", " ", "o", "o", "p", "s", "=",
    "'", "v", "a", "l", "u", "e", " ", "/", ">", "<", "/", "h", "i", ">">>,
  \* <hi><bye oops='value</hi>
  <<"<", "h", "i", ">", "<", "b", "y", "e", " ", "o", "o", "p", "s", "=",
    "'", "v", "a", "l", "u", "e", "<", "/", "h", "i", ">">>,
  \*    <?ab
  <<" ", " ", " ", "<", "?", "a", "b">>,
  \* <a><?b c</a>
  <<"<", "a", ">", "<", "?", "b", " ", "c", "<", "/", "a", ">">>,
  \* <ns1:hello xmlns:ns1='outer'><ns1:world xmlns:ns1='inner'/></ns1:hello>
  <<"<", "n", "s", "1", ":", "h", "e", "l", "l", "o", " ", "x", "m", "l",
    "n", "s", ":", "n", "s", "1", "=", "'", "o", "u", "t", "e", "r", "'",
    ">", "<", "n", "s", "1", ":", "w", "o", "r", "l", "d", " ", "x", "m",
    "l", "n", "s", ":", "n", "s", "1", "=", "'", "i", "n", "n", "e", "r",
    "'", "/", ">", "<", "/", "n", "s", "1", ":", "h", "e", "l", "l", "o",
    ">">>,
  \* <hello xmlns:ns1='outer'><world ns1:name='Earth' xmlns:ns1='inner'/></hello>
  <<"<", "h", "e", "l", "l", "o", " ", "x", "m", "l", "n", "s", ":", "n",
    "s", "1", "=", "'", "o", "u", "t", "e", "r", "'", ">", "<", "w", "o",
    "r", "l", "d", " ", "n", "s", "1", ":", "n", "a", "m", "e", "=", "'",
    "E", "a", "r", "t", "h", "'", " ", "x", "m", "l", "n", "s", ":", "n",
    "s", "1", "=", "'", "i", "n", "n", "e", "r", "'", "/", ">", "<", "/",
    "h", "e", "l", "l", "o", ">">>,
  \* <a xmlns:n='o'><b xmlns:n='i'><n:c/></b><n:d/></a>
  <<"<", "a", " ", "x", "m", "l", "n", "s", ":", "n", "=", "'", "o", "'",
    ">", "<", "b", " ", "x", "m", "l", "n", "s", ":", "n", "=", "'", "i",
    "'", ">", "<", "n", ":", "c", "/", ">", "<", "/", "b", ">", "<", "n",
    ":", "d", "/", ">", "<", "/", "a", ">">>,
  \* <n:a n:x='v' xmlns:n='u'/>
  <<"<", "n", ":", "a", " ", "n", ":", "x", "=", "'", "v", "'", " ", "x",
    "m", "l", "n", "s", ":", "n", "=", "'", "u", "'", "/", ">">>,
  \* <n:a/>
  <<"<", "n", ":", "a", "/", ">">>,
  \* <a n:x='v'/>
  <<"<", "a", " ", "n", ":", "x", "=", "'", "v", "'", "/", ">">>,
  \* <a xmlns:n='u'><m:b/></a>
  <<"<", "a", " ", "x", "m", "l", "n", "s", ":", "n", "=", "'", "u", "'",
    ">", "<", "m", ":", "b", "/", ">", "<", "/", "a", ">">>,
  \* <a xmlns:n='u'><b/><n:c/></a>
  <<"<", "a", " ", "x", "m", "l", "n", "s", ":", "n", "=", "'", "u", "'",
    ">", "<", "b", "/", ">", "<", "n", ":", "c", "/", ">", "<", "/", "a",
    ">">>,
  \* <a><b xmlns:n='u'/><n:c/></a>
  <<"<", "a", ">", "<", "b", " ", "x", "m", "l", "n", "s", ":", "n", "=",
    "'", "u", "'", "/", ">", "<", "n", ":", "c", "/", ">", "<", "/", "a",
    ">">>,
  \* <a></b>
  <<"<", "a", ">", "<", "/", "b", ">">>,
  \* <n:a xmlns:n='u' xmlns:m='u'></m:a>
  <<"<", "n", ":", "a", " ", "x", "m", "l", "n", "s", ":", "n", "=", "'",
    "u", "'", " ", "x", "m", "l", "n", "s", ":", "m", "=", "'", "u", "'",
    ">", "<", "/", "m", ":", "a", ">">>,
  \* <n:a xmlns:n='u'><b>t</b></n:a >
  <<"<", "n", ":", "a", " ", "x", "m", "l", "n", "s", ":", "n", "=", "'",
    "u", "'", ">", "<", "b", ">", "t", "<", "/", "b", ">", "<", "/", "n",
    ":", "a", " ", ">">>,
  \* <a><b></a></b>
  <<"<", "a", ">", "<", "b", ">", "<", "/", "a", ">", "<", "/", "b", ">">>,
  \* <?xml?><a/>
  <<"<", "?", "x", "m", "l", "?", ">", "<", "a", "/", ">">>,
  \* <a><?XML v?></a>
  <<"<", "a", ">", "<", "?", "X", "M", "L", " ", "v", "?", ">", "<", "/",
    "a", ">">>,
  \* <?Xml v?><a/>
  <<"<", "?", "X", "m", "l", " ", "v", "?", ">", "<", "a", "/", ">">>,
  \* <a/><?xMl?>
  <<"<", "a", "/", ">", "<", "?", "x", "M", "l", "?", ">">>,
  \* <?xmlx?><a/>
  <<"<", "?", "x", "m", "l", "x", "?", ">", "<", "a", "/", ">">>,
  \* <a>&bogus;</a>
  <<"<", "a", ">", "&", "b", "o", "g", "u", "s", ";", "<", "/", "a", ">">>,
  \* <a x='&bogus;'/>
  <<"<", "a", " ", "x", "=", "'", "&", "b", "o", "g", "u", "s", ";", "'",
    "/", ">">>,
  \* <a>&#xD800;</a>
  <<"<", "a", ">", "&", "#", "x", "D", "8", "0", "0", ";", "<", "/", "a",
    ">">>,
  \* <a>&#99999999999;</a>
  <<"<", "a", ">", "&", "#", "9", "9", "9", "9", "9", "9", "9", "9", "9",
    "9", "9", ";", "<", "/", "a", ">">>,
  \* <a/>junk
  <<"<", "a", "/", ">", "j", "u", "n", "k">>,
  \* <a/><b/>
  <<"<", "a", "/", ">", "<", "b", "/", ">">>,
  \* <a/><!--
  <<"<", "a", "/", ">", "<", "!", "-", "-">>,
  \* <a x=''/>
  <<"<", "a", " ", "x", "=", "'", "'", "/", ">">>,
  \* <a x/>
  <<"<", "a", " ", "x", "/", ">">>,
  \* <?xml version='1.0' x
  <<"<", "?", "x", "m", "l", " ", "v", "e", "r", "s", "i", "o", "n", "=",
    "'", "1", ".", "0", "'", " ", "x">>,
  \* <a b='&#x41
  <<"<", "a", " ", "b", "=", "'", "&", "#", "x", "4", "1">>,
  \* <a><b x='1'>t</b><c y="&#62;"/></a>\n
  <<"<", "a", ">", "<", "b", " ", "x", "=", "'", "1", "'", ">", "t", "<",
    "/", "b", ">", "<", "c", " ", "y", "=", "\"", "&", "#", "6", "2", ";",
    "\"", "/", ">", "<", "/", "a", ">", "\n">>
}

Inputs == Samples \cup Concatenations(MaxChunks)

(***************************************************************************)
(* Parser::parse.  The grammar runs over the input and calls the sink.     *)
(* The model takes one step for the prolog, one per call and one per       *)
(* return of parse_element, and one per sink call, in the order the        *)
(* grammar makes them: the grammar goes on when the sink has returned.     *)
(***************************************************************************)
NoOutcome == [kind |-> "none", offset |-> -1, why |-> ""]

Ok == [kind |-> "Ok", offset |-> -1, why |-> ""]

Err(offset) == [kind |-> "Err", offset |-> offset, why |-> ""]

Fatal(why) == [kind |-> "Fatal", offset |-> -1, why |-> why]

\* the hydrator after a sink call, or the abort of the whole parse
Deliver(r) ==
  /\ stack' = r.h.stack
  /\ element' = r.h.element
  /\ attributes' = r.h.attributes
  /\ nodes' = r.h.nodes
  /\ rootChildren' = r.h.rootChildren
  /\ emitted' = Append(emitted, Head(pending))
  /\ IF r.panic # <<>>
     THEN /\ phase' = "done"
          /\ outcome' = Fatal(r.panic[1])
          /\ pending' = <<>>
     ELSE /\ phase' = phase
          /\ outcome' = outcome
          /\ pending' = Tail(pending)
  /\ UNCHANGED <<input, result, prolog, frames, ret>>

Calls(e) ==
  /\ phase \in {"call", "return", "finish"}
  /\ pending # <<>>
  /\ Head(pending).e = e

\* a result whose sink calls are made
Sent(r) == [r EXCEPT !.ev = <<>>]

\* what parse returns
Returned(r) ==
  [k |-> r.k, f |-> r.f, mx |-> r.mx, mo |-> r.mo, pt |-> r.pt,
   why |-> IF r.k = "X" THEN r.d ELSE ""]

\* the grammar goes on: the sink has returned from the calls made so far
Running(ph) == phase = ph /\ pending = <<>>

\* parse_document returns r, and parse returns after the sink calls of r
Finish(r) ==
  /\ result' = Returned(r)
  /\ pending' = r.ev
  /\ phase' = "finish"

\* parse_document has parsed the prolog and goes on to the root element
Prolog(r1) ==
  /\ prolog' = Sent(r1)
  /\ IF r1.k \in {"F", "X"}
     THEN Finish(parse_document(r1, r1))
     ELSE pending' = r1.ev /\ phase' = "call" /\ result' = result

parse_start ==
  /\ phase = "start"
  /\ Prolog(parse_prolog(0))
  /\ UNCHANGED <<input, emitted, outcome, frames, ret, stack, element,
                 attributes, nodes, rootChildren>>

\* the innermost element whose content the grammar is in
Top == frames[Len(frames)]

\* where parse_element is called: after the prolog, or in the content of the
\* innermost element
Cursor == IF frames = <<>> THEN prolog.pt ELSE Top.z.pt

\* parse_element returns e to its caller
Return(e) ==
  /\ ret' = Sent(e)
  /\ pending' = e.ev
  /\ phase' = "return"

\* parse_element has parsed a start tag with result r4: it goes on to the
\* content of the element, where c is the result of the character data the
\* content starts with, or it returns
Enter(r4) ==
  IF has_content(r4)
  THEN /\ frames' = Append(frames, [start |-> Sent(r4),
                                    z |-> Sent(parse_content(r4.pt + 1))])
       /\ pending' = r4.ev \o parse_content(r4.pt + 1).ev
       /\ phase' = "call"
       /\ ret' = ret
  ELSE /\ Return(parse_element(r4, Failure(r4.pt)))
       /\ frames' = frames

parse_element_call ==
  /\ Running("call")
  /\ Enter(parse_element_start(Cursor))
  /\ UNCHANGED <<input, result, prolog, emitted, outcome, stack, element,
                 attributes, nodes, rootChildren>>

\* the zero_or_more of parse_content has made a turn with result z: it makes
\* another one, or parse_element goes on to the end tag and returns
Resume(z) ==
  IF z.k = "S"
  THEN /\ frames' = [frames EXCEPT ![Len(frames)].z = Sent(z)]
       /\ pending' = z.ev
       /\ phase' = "call"
       /\ ret' = ret
  ELSE /\ Return(parse_element(Top.start, z))
       /\ frames' = SubSeq(frames, 1, Len(frames) - 1)

\* parse_element has returned ret: to parse_document, or to the content of
\* the element that encloses it
parse_element_return ==
  /\ Running("return")
  /\ IF frames = <<>>
     THEN /\ Finish(parse_document(prolog, ret))
          /\ UNCHANGED <<frames, ret>>
     ELSE /\ Resume(parse_rest_of_contents(Top.z, ret))
          /\ result' = result
  /\ UNCHANGED <<input, prolog, emitted, outcome, stack, element, attributes,
                 nodes, rootChildren>>

element_start ==
  /\ Calls("element_start")
  /\ Deliver(hydrator_element_start(Hydrator, Head(pending).a))

element_end ==
  /\ Calls("element_end")
  /\ Deliver(hydrator_element_end(Hydrator, Head(pending).a))

comment ==
  /\ Calls("comment")
  /\ Deliver(hydrator_comment(Hydrator, Head(pending).a))

processing_instruction ==
  /\ Calls("processing_instruction")
  /\ Deliver(hydrator_processing_instruction(Hydrator, Head(pending).a,
                                             Head(pending).b))

text ==
  /\ Calls("text")
  /\ Deliver(hydrator_text(Hydrator, Head(pending).a))

reference ==
  /\ Calls("reference")
  /\ Deliver(hydrator_reference(Hydrator, Head(pending).a))

attributes_start ==
  /\ Calls("attributes_start")
  /\ Deliver(hydrator_attributes_start(Hydrator))

attributes_end ==
  /\ Calls("attributes_end")
  /\ Deliver(hydrator_attributes_end(Hydrator))

attribute_start ==
  /\ Calls("attribute_start")
  /\ Deliver(hydrator_attribute_start(Hydrator, Head(pending).a))

attribute_value ==
  /\ Calls("attribute_value")
  /\ Deliver(hydrator_attribute_value(Hydrator, Head(pending).a))

attribute_end ==
  /\ Calls("attribute_end")
  /\ Deliver(hydrator_attribute_end(Hydrator, Head(pending).a))

\* the grammar has returned (or panicked) after its last sink call
parse_return ==
  /\ Running("finish")
  /\ phase' = "done"
  /\ outcome' = CASE result.k = "S" -> Ok
                  [] result.k = "X" -> Fatal(result.why)
                  [] OTHER -> Err(result.f)
  /\ UNCHANGED <<input, result, prolog, frames, ret, pending, emitted, stack,
                 element, attributes, nodes, rootChildren>>

NoResult == [k |-> "", f |-> -1, mx |-> -1, mo |-> -1, pt |-> 0, why |-> ""]

Init ==
  /\ input \in Inputs
  /\ phase = "start"
  /\ result = NoResult
  /\ prolog = Sent(Failure(0))
  /\ frames = <<>>
  /\ ret = Sent(Failure(0))
  /\ pending = <<>>
  /\ emitted = <<>>
  /\ outcome = NoOutcome
  /\ stack = <<>>
  /\ element = <<>>
  /\ attributes = <<>>
  /\ nodes = <<>>
  /\ rootChildren = <<>>

Next ==
  \/ parse_start
  \/ parse_element_call
  \/ parse_element_return
  \/ element_start
  \/ element_end
  \/ comment
  \/ processing_instruction
  \/ text
  \/ reference
  \/ attributes_start
  \/ attributes_end
  \/ attribute_start
  \/ attribute_value
  \/ attribute_end
  \/ parse_return

Spec == Init /\ [][Next]_vars

(***************************************************************************)
(* Properties.                                                             *)
(***************************************************************************)
Points == 0..InputLen

\* the grammar has parsed the prolog
Parsed == phase # "start" /\ emitted = <<>>

Finished == phase = "done"

\* what an alternation of l and r, tried from the same point, has to return
Alternation(l, r, o) ==
  /\ l.k = "S" => o.k = "S" /\ o.pt = l.pt /\ o.d = l.d
  /\ l.k = "F" /\ r.k = "S" => o.k = "S" /\ o.pt = r.pt /\ o.d = r.d
  /\ l.k = "F" /\ r.k = "F" => o.k = "F" /\ o.f = Max(l.f, r.f)

\* C1: an alternation returns the success of its first alternative that
\* succeeds, and when all of them fail, the failure with the greatest offset.
\* At every point of every input this holds of the two quotes of a quoted
\* value, of the three kinds of reference and of the three kinds of misc.
C1_OrElse ==
  Parsed =>
    \A p \in Points :
      /\ \A f \in {"version_num", "parse_attribute_values"} :
           Alternation(parse_one_quoted_value(p, "'", f),
                       parse_one_quoted_value(p, "\"", f),
                       parse_quoted_value(p, f))
      /\ LET e == parse_entity_ref(p)
             d == parse_decimal_char_ref(p)
             h == parse_hex_char_ref(p)
             r == parse_reference(p)
         IN  /\ e.k = "S" => r.k = "S" /\ r.pt = e.pt /\ r.d = e.d
             /\ e.k = "F" /\ d.k = "S" => r.k = "S" /\ r.pt = d.pt /\ r.d = d.d
             /\ e.k = "F" /\ d.k = "F" /\ h.k = "S" =>
                  r.k = "S" /\ r.pt = h.pt /\ r.d = h.d
             /\ e.k = "F" /\ d.k = "F" /\ h.k = "F" =>
                  r.k = "F" /\ r.f = Max(e.f, Max(d.f, h.f))
      /\ LET c == parse_comment(p)
             i == parse_pi(p)
             w == map_unit(consume_space(p))
             m == parse_misc(p)
         IN  /\ c.k = "S" => m.k = "S" /\ m.pt = c.pt
             /\ c.k = "F" /\ i.k = "S" => m.k = "S" /\ m.pt = i.pt
             /\ c.k = "F" /\ i.k = "F" /\ w.k = "S" =>
                  m.k = "S" /\ m.pt = w.pt
             /\ c.k = "F" /\ i.k = "F" /\ w.k = "F" =>
                  m.k = "F" /\ m.f = Max(c.f, Max(i.f, w.f))

\* C1 witness: from point 3 the comment fails at 3 and the processing
\* instruction at 7, and the misc fails at 7
C1_Witness ==
  /\ Parsed
  /\ 3 \in Points
  /\ parse_comment(3).k = "F" /\ parse_comment(3).f = 3
  /\ parse_pi(3).k = "F" /\ parse_pi(3).f = 7
  /\ parse_misc(3).k = "F" /\ parse_misc(3).f = 7

\* the offset parse_element fails at when the mandatory item that follows
\* its attributes or its content fails at q
ElementFailure(start, q) ==
  IF start.d.attributes.k = "P" THEN Max(start.d.attributes.f, q) ELSE q

\* C2: when a zero-or-more stops at a failure at offset p and the mandatory
\* item that follows it fails at offset q, the production fails at the
\* greater of p and q.  This holds of the closing quote after the fragments
\* of an attribute value (at every point of every input), of the tail of an
\* element after its attributes, of the end tag after the content of an
\* element and of the root element after the prolog; <hi><oops</hi> fails at
\* 9 and <hi oops='value /> at 18.
C2_ZeroOrMoreThenMandatory ==
  /\ [](Parsed =>
          \A p \in Points : \A quote \in {"'", "\""} :
            LET open == consume_literal(p, <<quote>>)
                z == parse_attribute_values(open.pt, quote)
                close == consume_literal(z.pt, <<quote>>)
                o == parse_one_quoted_value(p, quote, "parse_attribute_values")
            IN  open.k = "S" /\ z.k = "P" /\ close.k = "F" =>
                  o.k = "F" /\ o.f = Max(z.f, close.f))
  /\ [][parse_element_call =>
          LET r4 == parse_element_start(Cursor)
              tail == or_else(parse_empty_element_tail(r4.pt),
                              consume_literal(r4.pt, <<">">>))
          IN  r4.k = "S" /\ r4.d.attributes.k = "P" /\ tail.k = "F" =>
                /\ phase' = "return"
                /\ ret'.k = "F"
                /\ ret'.f = Max(r4.d.attributes.f, tail.f)]_vars
  /\ [][parse_element_return /\ frames # <<>> =>
          LET z == parse_rest_of_contents(Top.z, ret)
              end == parse_element_end(z.pt)
          IN  z.k = "P" /\ end.k = "F" =>
                /\ phase' = "return"
                /\ ret'.k = "F"
                /\ ret'.f = ElementFailure(Top.start, Max(z.f, end.f))]_vars
  /\ [][parse_element_return /\ frames = <<>> =>
          (prolog.k = "P" /\ ret.k = "F" =>
             result'.k = "F" /\ result'.f = Max(prolog.f, ret.f))]_vars
  /\ [](Finished /\ input = <<"<", "h", "i", ">", "<", "o", "o", "p", "s", "<",
                              "/", "h", "i", ">">> => outcome = Err(9))
  /\ [](Finished /\ input = <<"<", "h", "i", " ", "o", "o", "p", "s", "=", "'",
                              "v", "a", "l", "u", "e", " ", "/", ">">> =>
          outcome = Err(18))

\* C2 witness: <hi><oops</hi> has failed at 9: the attributes of oops stop
\* at 9 and its tail fails at 9, the content of hi stops there and its end
\* tag fails at 4
C2_Witness ==
  /\ input = <<"<", "h", "i", ">", "<", "o", "o", "p", "s", "<", "/", "h",
               "i", ">">>
  /\ Finished
  /\ outcome = Err(9)
  /\ parse_attributes(9).k = "P" /\ parse_attributes(9).f = 9
  /\ parse_element_end(4).k = "F" /\ parse_element_end(4).f = 4

\* C3 as stated: a failure returned by parse is at the greatest offset of
\* all the failures met during the parse, those inside an optional item that
\* was skipped included.
C3_GreatestOfAllFailures ==
  Finished /\ outcome.kind = "Err" => outcome.offset = result.mx

\* C3: a failure returned by parse is at the greatest offset of the failures
\* met during the parse that were not inside an optional item that was
\* skipped (an optional item forgets the failure it turns into a success);
\* it is at most the greatest offset of all the failures met.
C3_GreatestFailureOutsideSkippedOptionals ==
  Finished /\ outcome.kind = "Err" =>
    /\ outcome.offset = result.f
    /\ outcome.offset = result.mo
    /\ outcome.offset <= result.mx

\* C3 witness: in <a><?b c</a> the value of the processing instruction is
\* optional and fails at 7, the processing instruction fails at 6
C3_Witness ==
  /\ Finished
  /\ input = <<"<", "a", ">", "<", "?", "b", " ", "c", "<", "/", "a", ">">>
  /\ parse_pi_value(6).k = "F" /\ parse_pi_value(6).f = 7
  /\ outcome = Err(6)
  /\ result.mx = 7

\* the sink calls evs follow the order of the events of an element: open is
\* the names of the elements started and not ended, outermost first, and
\* mode is "started" after an element_start, "attributes" from the
\* attributes_start to the attributes_end of an element and "content"
\* otherwise
RECURSIVE InOrder(_, _, _)
InOrder(evs, open, mode) ==
  IF evs = <<>> THEN TRUE
  ELSE LET e == Head(evs)
       IN  CASE e.e = "element_start" ->
                  /\ mode = "content"
                  /\ InOrder(Tail(evs), Append(open, e.a), "started")
             [] e.e = "attributes_start" ->
                  /\ mode = "started"
                  /\ InOrder(Tail(evs), open, "attributes")
             [] e.e \in {"attribute_start", "attribute_value",
                         "attribute_end"} ->
                  /\ mode = "attributes"
                  /\ InOrder(Tail(evs), open, "attributes")
             [] e.e = "attributes_end" ->
                  /\ mode = "attributes"
                  /\ InOrder(Tail(evs), open, "content")
             [] e.e = "element_end" ->
                  /\ mode = "content"
                  /\ open # <<>>
                  /\ open[Len(open)] = e.a
                  /\ InOrder(Tail(evs), SubSeq(open, 1, Len(open) - 1),
                             "content")
             [] e.e \in {"text", "reference", "comment",
                         "processing_instruction"} ->
                  /\ mode = "content"
                  /\ InOrder(Tail(evs), open, "content")

\* the number of sink calls e among evs
Count(evs, e) == Cardinality({i \in 1..Len(evs) : evs[i].e = e})

\* C4: the sink calls made so far are, for each element, element_start(name),
\* attributes_start, the events of its attributes, attributes_end, the events
\* of its children and element_end(name) with the same name: the events of
\* the elements are nested, no other event falls between the element_start
\* and the attributes_end of an element except those of its attributes, and
\* every element of a parse that succeeds is ended.
C4_SinkEventOrder ==
  /\ InOrder(emitted, <<>>, "content")
  /\ Finished /\ outcome = Ok =>
       Count(emitted, "element_start") = Count(emitted, "element_end")

\* C4 witness: a parse that succeeded where an element with an attribute has
\* a child element and text
C4_Witness ==
  /\ Finished
  /\ outcome = Ok
  /\ Count(emitted, "element_start") >= 2
  /\ Count(emitted, "attribute_end") >= 1
  /\ Count(emitted, "text") >= 1
  /\ \E i \in 1..Len(emitted) : \E j \in (i + 1)..Len(emitted) :
       /\ emitted[i].e = "element_end"
       /\ emitted[j].e = "element_end"
       /\ emitted[i].a # emitted[j].a

\* the sink calls evs follow the protocol of the attribute events: open is
\* the name of the attribute started and not ended (or <<>>) and n the number
\* of its fragments so far; an attribute has at least min fragments, and
\* when closed holds no attribute is open at an attributes_end
RECURSIVE AttributeProtocol(_, _, _, _, _)
AttributeProtocol(evs, open, n, min, closed) ==
  IF evs = <<>> THEN TRUE
  ELSE LET e == Head(evs)
       IN  CASE e.e = "attribute_start" ->
                  /\ open = <<>>
                  /\ AttributeProtocol(Tail(evs), <<e.a>>, 0, min, closed)
             [] e.e = "attribute_value" ->
                  /\ open # <<>>
                  /\ AttributeProtocol(Tail(evs), open, n + 1, min, closed)
             [] e.e = "attribute_end" ->
                  /\ open = <<e.a>>
                  /\ n >= min
                  /\ AttributeProtocol(Tail(evs), <<>>, 0, min, closed)
             [] e.e = "attributes_end" ->
                  /\ closed => open = <<>>
                  /\ AttributeProtocol(Tail(evs), <<>>, 0, min, closed)
             [] OTHER ->
                  /\ open = <<>>
                  /\ AttributeProtocol(Tail(evs), <<>>, 0, min, closed)

\* C5 as stated: every attribute_start(name) is followed by one or more
\* attribute_value and then attribute_end(name), before the attributes_end
\* of the element, and no attributes_end is called while an attribute is
\* started and not ended.
C5_OneOrMoreFragments == AttributeProtocol(emitted, <<>>, 0, 1, TRUE)

\* C5: every attribute_start(name) is followed by zero or more
\* attribute_value (none for an empty value) and then by attribute_end(name)
\* or, when the attribute fails after its name, by the attributes_end of the
\* element with the attribute left open; no other event falls in between.
\* In a parse that succeeds every attribute started is ended before the
\* attributes_end of its element.
C5_AttributeProtocol ==
  /\ AttributeProtocol(emitted, <<>>, 0, 0, FALSE)
  /\ Finished /\ outcome = Ok => AttributeProtocol(emitted, <<>>, 0, 0, TRUE)

\* C5 witness: <a x=''/> has succeeded, the attribute x has no fragment
C5_Witness ==
  /\ Finished
  /\ outcome = Ok
  /\ input = <<"<", "a", " ", "x", "=", "'", "'", "/", ">">>
  /\ \E i \in 1..(Len(emitted) - 1) :
       /\ emitted[i].e = "attribute_start"
       /\ emitted[i + 1].e = "attribute_end"
       /\ emitted[i + 1].a = emitted[i].a

\* the element nodes of an arena
Elements(nds) == {i \in 1..Len(nds) : nds[i].type = "element"}

\* the attributes staged that declare the prefix: xmlns:prefix
Declarations(attrs, prefix) ==
  {i \in 1..Len(attrs) : attrs[i].name = PrefixedName(<<Xmlns>>, prefix)}

\* the URI of the last declaration of the prefix among the attributes staged
DeclaredUri(attrs, prefix) ==
  convert(attrs[CHOOSE i \in Declarations(attrs, prefix) :
                  \A j \in Declarations(attrs, prefix) : j <= i].values).s

\* the prefix, if any, is declared among the attributes staged
Declared(attrs, prefix) ==
  prefix # <<>> /\ Declarations(attrs, prefix[1]) # {}

\* the sink has returned from the call without a panic
Returns == outcome'.kind # "Fatal"

\* C6: no node is created at element_start, which only stages the name, nor
\* at attribute_start, attribute_value and attribute_end, which only stage
\* the attributes: the element node is created at attributes_end, and only
\* there.  There a prefix of the element name or of an attribute name that
\* an xmlns:prefix attribute staged for the same element declares resolves to
\* the URI of that declaration, wherever the declaration is among the
\* attributes.
C6_TwoPhaseElement ==
  /\ [][element_start =>
          /\ nodes' = nodes
          /\ stack' = stack
          /\ element' = <<Head(pending).a>>]_vars
  /\ [][attribute_start \/ attribute_value \/ attribute_end \/ attributes_start
          => nodes' = nodes /\ stack' = stack]_vars
  /\ [][Elements(nodes') # Elements(nodes) => attributes_end]_vars
  /\ [][attributes_end /\ Returns =>
          LET id == Len(nodes) + 1
              name == element[1]
          IN  /\ Elements(nodes') = Elements(nodes) \cup {id}
              /\ nodes'[id].name.local = name.local_part
              /\ stack' = Append(stack, id)
              /\ (name.prefix # <<>> /\ Declared(attributes, name.prefix)) =>
                   nodes'[id].name.ns =
                     <<DeclaredUri(attributes, name.prefix[1])>>
              /\ \A i \in 1..Len(attributes) :
                   LET a == attributes[i].name
                   IN  (a.prefix \notin {<<>>, <<Xmlns>>}
                          /\ Declared(attributes, a.prefix)) =>
                         \E j \in 1..Len(nodes'[id].attrs) :
                           nodes'[id].attrs[j].name =
                             QName(<<DeclaredUri(attributes, a.prefix[1])>>,
                                   a.local_part)]_vars

\* C6 witness: <hello ns:a='b' xmlns:ns='namespace'/> has succeeded: the
\* attribute ns:a comes before the declaration of ns and is in its namespace
C6_Witness ==
  /\ Finished
  /\ outcome = Ok
  /\ Len(emitted) > 2
  /\ emitted[3] = Ev("attribute_start",
                     PrefixedName(<<<<"n", "s">>>>, <<"a">>), <<>>)
  /\ nodes[1].type = "element"
  /\ nodes[1].attrs # <<>>
  /\ nodes[1].attrs[1].name =
       QName(<<<<"n", "a", "m", "e", "s", "p", "a", "c", "e">>>>, <<"a">>)

\* the element node registers the prefix
Registers(node, prefix) ==
  \E m \in 1..Len(node.prefixes) : node.prefixes[m].prefix = prefix

\* the URI the element node registers for the prefix
RegisteredUri(node, prefix) ==
  node.prefixes[CHOOSE m \in 1..Len(node.prefixes) :
                  /\ node.prefixes[m].prefix = prefix
                  /\ \A n \in (m + 1)..Len(node.prefixes) :
                       node.prefixes[n].prefix # prefix].uri

\* the binding of the prefix on the innermost of the open elements stk that
\* registers it, or <<>>
Inherited(stk, nds, prefix) ==
  LET S == {k \in 1..Len(stk) : Registers(nds[stk[k]], prefix)}
  IN  IF S = {} THEN <<>>
      ELSE <<RegisteredUri(nds[stk[CHOOSE k \in S : \A l \in S : l <= k]],
                           prefix)>>

\* the binding of the prefix for an element with the attributes attrs staged,
\* inside the open elements stk
Binding(attrs, stk, nds, prefix) ==
  IF Declared(attrs, <<prefix>>) THEN <<DeclaredUri(attrs, prefix)>>
  ELSE Inherited(stk, nds, prefix)

\* C7: the open elements of the hydrator are each the parent of the next.
\* At attributes_end the prefix of the element name and of each ordinary
\* attribute resolves to the URI the element itself declares for it, or else
\* to the URI registered by the innermost open element that registers it;
\* the element registers the prefixes it declares, with their URIs, and no
\* other.  So a child that declares nothing inherits the binding of its
\* ancestor and a child that declares the prefix again uses its own URI.
C7_NamespaceLookup ==
  /\ [](\A k \in 1..Len(stack) :
          /\ nodes[stack[k]].type = "element"
          /\ nodes[stack[k]].parent = IF k = 1 THEN 0 ELSE stack[k - 1])
  /\ [][attributes_end /\ Returns =>
          LET id == Len(nodes) + 1
              name == element[1]
          IN  /\ name.prefix # <<>> =>
                   /\ Binding(attributes, stack, nodes, name.prefix[1]) # <<>>
                   /\ nodes'[id].name.ns =
                        Binding(attributes, stack, nodes, name.prefix[1])
              /\ \A i \in 1..Len(attributes) :
                   LET a == attributes[i].name
                   IN  a.prefix \notin {<<>>, <<Xmlns>>} =>
                         \E j \in 1..Len(nodes'[id].attrs) :
                           /\ nodes'[id].attrs[j].name.local = a.local_part
                           /\ nodes'[id].attrs[j].name.ns # <<>>
                           /\ nodes'[id].attrs[j].name.ns =
                                Binding(attributes, stack, nodes, a.prefix[1])
              /\ \A i \in 1..Len(attributes) :
                   LET a == attributes[i].name
                   IN  a.prefix = <<Xmlns>> =>
                         /\ Registers(nodes'[id], a.local_part)
                         /\ RegisteredUri(nodes'[id], a.local_part) =
                              DeclaredUri(attributes, a.local_part)
              /\ \A m \in 1..Len(nodes'[id].prefixes) :
                   Declared(attributes, <<nodes'[id].prefixes[m].prefix>>)
     ]_vars

\* C7 witness: <a xmlns:n='o'><b xmlns:n='i'><n:c/></b><n:d/></a> has
\* succeeded: c, inside b, is in the namespace i and d, outside b, in o
C7_Witness ==
  /\ Finished
  /\ outcome = Ok
  /\ Len(nodes) = 4
  /\ nodes[1].prefixes = <<[prefix |-> <<"n">>, uri |-> <<"o">>]>>
  /\ nodes[2].prefixes = <<[prefix |-> <<"n">>, uri |-> <<"i">>]>>
  /\ nodes[2].parent = 1
  /\ nodes[3].parent = 2
  /\ nodes[3].name = QName(<<<<"i">>>>, <<"c">>)
  /\ nodes[4].parent = 1
  /\ nodes[4].name = QName(<<<<"o">>>>, <<"d">>)

\* the name has a prefix, bound neither by the attributes attrs staged for the
\* element nor by an open element
Unresolved(name, attrs) ==
  /\ name.prefix # <<>>
  /\ Binding(attrs, stack, nodes, name.prefix[1]) = <<>>

\* C8: when the name of the element or of one of its ordinary attributes has
\* a prefix that neither the element itself nor an open element binds, the
\* parse aborts at attributes_end: it ends there with a fatal error, not with
\* a document and not with the offset of a failure.  No element and no
\* attribute that has a prefix is ever without a namespace.
C8_UnresolvedPrefixIsFatal ==
  /\ [][attributes_end
          /\ (\/ Unresolved(element[1], attributes)
              \/ \E i \in 1..Len(attributes) :
                   /\ ~is_namespace_declaration(attributes[i])
                   /\ Unresolved(attributes[i].name, attributes))
          => phase' = "done" /\ outcome'.kind = "Fatal"]_vars
  /\ [][outcome.kind = "Fatal" => outcome' = outcome /\ phase' = "done"]_vars
  /\ [](outcome.kind = "Fatal" => phase = "done")
  /\ [](\A i \in 1..Len(nodes) :
          nodes[i].type = "element" =>
            /\ nodes[i].preferred_prefix # <<>> => nodes[i].name.ns # <<>>
            /\ \A j \in 1..Len(nodes[i].attrs) :
                 nodes[i].attrs[j].preferred_prefix # <<>> =>
                   nodes[i].attrs[j].name.ns # <<>>)

\* C8 witness: <a xmlns:n='u'><m:b/></a> has aborted at the attributes_end
\* of m:b: only the element a was created
C8_Witness ==
  /\ Finished
  /\ outcome = Fatal("Unknown namespace prefix")
  /\ emitted[Len(emitted)].e = "attributes_end"
  /\ element = <<>>
  /\ Len(nodes) = 1
  /\ nodes[1].prefixes = <<[prefix |-> <<"n">>, uri |-> <<"u">>]>>
  /\ \E i \in 1..Len(emitted) :
       emitted[i] = Ev("element_start", PrefixedName(<<<<"m">>>>, <<"b">>),
                       <<>>)

\* C9: when the content of an element has ended and an end tag is parsed
\* there, parse_element succeeds and calls element_end if the end tag has the
\* prefix and the local part of the start tag, and panics if it has not,
\* without a call of element_end: names are compared as written, whatever
\* the namespaces of their prefixes.  The panic is not a failure: it is
\* returned by every production up to parse, which ends with a fatal error
\* and not with an offset.
C9_EndTagMatching ==
  /\ [][parse_element_return /\ frames # <<>> =>
          LET z == parse_rest_of_contents(Top.z, ret)
              end == parse_element_end(z.pt)
              name == Top.start.d.name
          IN  z.k = "P" /\ end.k = "S" =>
                IF end.d = name
                THEN /\ ret'.k = "S"
                     /\ ret'.pt = end.pt
                     /\ pending'[Len(pending')] = Ev("element_end", name, <<>>)
                ELSE /\ ret'.k = "X"
                     /\ ret'.d = "tags do not match!"
                     /\ Count(pending', "element_end") = 0]_vars
  /\ [][ret.k = "X" /\ phase' # "done" => ret'.k = "X"]_vars
  /\ [][ret.k = "X" /\ parse_return => outcome' = Fatal(ret.d)]_vars
  /\ [](Finished /\ ret.k = "X" => outcome.kind = "Fatal")
  /\ [](Finished
          /\ input \in {<<"<", "a", ">", "<", "/", "b", ">">>,
                        <<"<", "n", ":", "a", " ", "x", "m", "l", "n", "s",
                          ":", "n", "=", "'", "u", "'", " ", "x", "m", "l",
                          "n", "s", ":", "m", "=", "'", "u", "'", ">", "<",
                          "/", "m", ":", "a", ">">>}
          => outcome = Fatal("tags do not match!"))

\* C9 witness: <n:a xmlns:n='u' xmlns:m='u'></m:a> has aborted: n and m are
\* bound to the same namespace, and no element was ended
C9_Witness ==
  /\ Finished
  /\ outcome = Fatal("tags do not match!")
  /\ Len(nodes) = 1
  /\ Len(nodes[1].prefixes) = 2
  /\ nodes[1].prefixes[1].uri = nodes[1].prefixes[2].uri
  /\ Count(emitted, "element_end") = 0
  /\ stack = <<1>>

\* the spellings of the reserved target
ReservedTargets ==
  {<<x, m, l>> : x \in {"x", "X"}, m \in {"m", "M"}, l \in {"l", "L"}}

\* a complete processing instruction stands at p: <?, a name, a value or
\* none, ?>
CompletePi(p) ==
  LET open == consume_literal(p, <<"<", "?">>)
      target == consume_name(open.pt)
      value == optional(parse_pi_value(target.pt), target.pt)
  IN  /\ open.k = "S"
      /\ target.k = "S"
      /\ consume_literal(value.pt, <<"?", ">">>).k = "S"

PiTarget(p) == consume_name(p + 2).d

ReservedPi(p) == CompletePi(p) /\ PiTarget(p) \in ReservedTargets

\* C10: wherever a complete processing instruction with the target xml, in
\* any case of its letters, stands, parse_pi panics, and so does a misc and
\* an item of content tried there; with any other target it succeeds.  When
\* the grammar comes to such a processing instruction after the optional
\* declaration, in the content of an element or after the root element, the
\* panic is what parse ends with: a fatal error.  The sink is never called
\* with a processing instruction that has such a target.
C10_ReservedPiTarget ==
  /\ [](Parsed =>
          \A p \in Points :
            /\ ReservedPi(p) =>
                 /\ parse_pi(p).k = "X"
                 /\ parse_pi(p).ev = <<>>
                 /\ parse_misc(p).k = "X"
                 /\ parse_rest_of_content(p, Failure(p)).k = "X"
            /\ CompletePi(p) /\ ~ReservedPi(p) => parse_pi(p).k = "S")
  /\ [][parse_start =>
          LET d == optional(parse_xml_declaration(0), 0)
          IN  d.k = "S" /\ ReservedPi(d.pt) =>
                /\ phase' = "finish"
                /\ result'.k = "X"
                /\ result'.why = "Can't use xml as a PI target"]_vars
  /\ [][parse_element_return /\ frames # <<>> =>
          (ret.k = "F" /\ ReservedPi(Top.z.pt) =>
             /\ ret'.k = "X"
             /\ ret'.d = "Can't use xml as a PI target")]_vars
  /\ [][parse_element_return /\ frames = <<>> =>
          (ret.k = "S" /\ ReservedPi(ret.pt) => result'.k = "X")]_vars
  /\ [][parse_return /\ result.k = "X" => outcome' = Fatal(result.why)]_vars
  /\ [](\A i \in 1..Len(emitted) :
          emitted[i].e = "processing_instruction" =>
            emitted[i].a \notin ReservedTargets)
  /\ [](\A i \in 1..Len(pending) :
          pending[i].e = "processing_instruction" =>
            pending[i].a \notin ReservedTargets)
  /\ [](Finished
          /\ input \in {<<"<", "?", "x", "m", "l", "?", ">", "<", "a", "/",
                          ">">>,
                        <<"<", "a", ">", "<", "?", "X", "M", "L", " ", "v",
                          "?", ">", "<", "/", "a", ">">>,
                        <<"<", "?", "X", "m", "l", " ", "v", "?", ">", "<",
                          "a", "/", ">">>,
                        <<"<", "a", "/", ">", "<", "?", "x", "M", "l", "?",
                          ">">>}
          => outcome = Fatal("Can't use xml as a PI target"))

\* C10 witness: <a><?XML v?></a> has aborted in the content of a, after the
\* attributes_end of a, which is the last call of the sink
C10_Witness ==
  /\ Finished
  /\ outcome = Fatal("Can't use xml as a PI target")
  /\ ReservedPi(3)
  /\ PiTarget(3) = <<"X", "M", "L">>
  /\ Len(emitted) = 3
  /\ emitted[3].e = "attributes_end"
  /\ stack = <<1>>

(***************************************************************************)
(* Reference decoding.                                                     *)
(***************************************************************************)
\* one more than the greatest code point
CodePoints == 1114112

\* the number the digits spell, or CodePoints when it is no code point
RECURSIVE Spelled(_, _, _)
Spelled(digits, radix, n) ==
  IF digits = <<>> THEN n
  ELSE LET m == n * radix + DigitValue(Head(digits))
       IN  Spelled(Tail(digits), radix,
                   IF m >= CodePoints THEN CodePoints ELSE m)

CodeOf(ref) == Spelled(ref.s, IF ref.t = "HexChar" THEN 16 ELSE 10, 0)

\* the character of a code point, as the model writes characters
Character(n) ==
  CASE n = 34 -> "\"" [] n = 38 -> "&" [] n = 39 -> "'" [] n = 60 -> "<"
    [] n = 62 -> ">" [] n = 97 -> "a" [] n = 98 -> "b" [] n = 48 -> "0"
    [] n = 49 -> "1" [] OTHER -> "U+" \o ToString(n)

Entities ==
  {<<"a", "m", "p">>, <<"l", "t">>, <<"g", "t">>, <<"a", "p", "o", "s">>,
   <<"q", "u", "o", "t">>}

\* the reference stands for a character
Decodes(ref) ==
  IF ref.t = "Entity" THEN ref.s \in Entities
  ELSE CodeOf(ref) < CodePoints /\ ~(CodeOf(ref) \in 55296..57343)

\* the character the reference stands for
Decoded(ref) ==
  IF ref.t = "Entity"
  THEN CASE ref.s = <<"a", "m", "p">> -> "&"
         [] ref.s = <<"l", "t">> -> "<"
         [] ref.s = <<"g", "t">> -> ">"
         [] ref.s = <<"a", "p", "o", "s">> -> "'"
         [] ref.s = <<"q", "u", "o", "t">> -> "\""
  ELSE Character(CodeOf(ref))

\* the value the fragments of an attribute stand for
RECURSIVE Assembled(_)
Assembled(values) ==
  IF values = <<>> THEN <<>>
  ELSE (IF Head(values).t = "Literal" THEN Head(values).s
        ELSE <<Decoded(Head(values))>>) \o Assembled(Tail(values))

\* a fragment of a staged attribute is a reference that stands for nothing
Undecodable(attrs) ==
  \E i \in DOMAIN attrs :
    \E j \in DOMAIN attrs[i].values :
      attrs[i].values[j].t # "Literal" /\ ~Decodes(attrs[i].values[j])

\* no attribute staged after the i-th has its local name
LastOfName(attrs, i) ==
  \A j \in DOMAIN attrs : j > i =>
    attrs[j].name.local_part # attrs[i].name.local_part

\* C11: a reference in the content of an element that names one of the five
\* entities, or spells a code point that is a character, becomes a text node
\* of that one character, the last child of the open element; any other
\* reference ends the parse with a fatal error and leaves the tree as it is.
\* The fragments of attribute values are decoded in the same way when the
\* element is created: a fragment that stands for nothing ends the parse with
\* a fatal error, and else the value of an attribute and the URI of a
\* namespace declaration are its fragments with the references decoded.
C11_ReferenceDecoding ==
  /\ [][reference =>
          LET ref == Head(pending).a
          IN  IF Decodes(ref)
              THEN /\ outcome' = outcome
                   /\ Len(nodes') = Len(nodes) + 1
                   /\ Last(nodes').type = "text"
                   /\ Last(nodes').text = <<Decoded(ref)>>
                   /\ Last(nodes').parent = Last(stack)
                   /\ Last(nodes'[Last(stack)].children) = Len(nodes')
              ELSE /\ outcome'.kind = "Fatal"
                   /\ nodes' = nodes]_vars
  /\ [][attributes_end =>
          IF Undecodable(attributes) THEN outcome'.kind = "Fatal"
          ELSE outcome'.kind # "Fatal" =>
                 \A i \in DOMAIN attributes :
                   LET a == attributes[i]
                       e == nodes'[Last(stack')]
                   IN  LastOfName(attributes, i) =>
                         IF is_namespace_declaration(a)
                         THEN lookup_prefix(e.prefixes, a.name.local_part)
                                = <<Assembled(a.values)>>
                         ELSE \E b \in Range(e.attrs) :
                                /\ b.name.local = a.name.local_part
                                /\ b.preferred_prefix = a.name.prefix
                                /\ b.value = Assembled(a.values)]_vars

\* C11 witness: every reference of <a x='&gt;&apos;&quot;&lt;'/> is decoded
\* in the value of x
C11_Witness ==
  /\ Finished
  /\ outcome = Ok
  /\ Len(nodes) = 1
  /\ Len(nodes[1].attrs) = 1
  /\ nodes[1].attrs[1].value = <<">", "'", "\"", "<">>
  /\ \E i \in DOMAIN emitted :
       /\ emitted[i].e = "attribute_value"
       /\ emitted[i].a = [t |-> "Entity", s |-> <<"a", "p", "o", "s">>]

(***************************************************************************)
(* Attribute values.                                                       *)
(***************************************************************************)
\* a fragment as it is written in the input
Written(v) ==
  CASE v.t = "Literal" -> v.s
    [] v.t = "Entity" -> <<"&">> \o v.s \o <<";">>
    [] v.t = "DecimalChar" -> <<"&", "#">> \o v.s \o <<";">>
    [] v.t = "HexChar" -> <<"&", "#", "x">> \o v.s \o <<";">>

\* the fragments of the attribute_value calls, in order
RECURSIVE Fragments(_)
Fragments(evs) ==
  IF evs = <<>> THEN <<>> ELSE <<Head(evs).a>> \o Fragments(Tail(evs))

RECURSIVE WrittenAll(_)
WrittenAll(values) ==
  IF values = <<>> THEN <<>>
  ELSE Written(Head(values)) \o WrittenAll(Tail(values))

\* the attributes of the deferred buffer that declare no namespace
Ordinary(attrs) ==
  SelectSeq(attrs, LAMBDA a : ~is_namespace_declaration(a))

\* C12: a quoted attribute value that parses is sent to the sink as fragments
\* that, written one after the other, are the text between the quotes,
\* whichever the quote is; the hydrator starts each attribute with no
\* fragments and appends each fragment to the attribute started last; and
\* on the element that attributes_end creates, each attribute has the value
\* its own fragments give, one after the other with the references decoded,
\* and nothing of the attributes before it.
C12_AttributeValueAssembly ==
  /\ [](Parsed =>
          \A p \in Points : \A quote \in {"'", "\""} :
            LET r == parse_one_quoted_value(p, quote, "parse_attribute_values")
            IN  r.k = "S" =>
                  /\ input[p + 1] = quote
                  /\ input[r.pt] = quote
                  /\ \A i \in DOMAIN r.ev : r.ev[i].e = "attribute_value"
                  /\ WrittenAll(Fragments(r.ev))
                       = SubSeq(input, p + 2, r.pt - 1)
                  /\ \A i \in (p + 2)..(r.pt - 1) : input[i] # quote)
  /\ [][attribute_start =>
          attributes' = Append(attributes, [name |-> Head(pending).a,
                                            values |-> <<>>])]_vars
  /\ [][attribute_value =>
          /\ attributes # <<>>
          /\ attributes' =
               [attributes EXCEPT ![Len(attributes)].values =
                  Append(attributes[Len(attributes)].values,
                         Head(pending).a)]]_vars
  /\ [][attributes_end /\ outcome'.kind # "Fatal" =>
          LET e == nodes'[Last(stack')]
              staged == Ordinary(attributes)
          IN  /\ \A i \in DOMAIN staged :
                   LastOfName(staged, i) =>
                     \E b \in Range(e.attrs) :
                       /\ b.name.local = staged[i].name.local_part
                       /\ b.preferred_prefix = staged[i].name.prefix
                       /\ b.value = Assembled(staged[i].values)
              /\ \A b \in Range(e.attrs) :
                   \E i \in DOMAIN staged :
                     /\ b.name.local = staged[i].name.local_part
                     /\ b.preferred_prefix = staged[i].name.prefix
                     /\ b.value = Assembled(staged[i].values)]_vars

\* C12 witness: in <a x='1&amp;2' y="3"/> the value of x is 1&2 and the value
\* of y is 3
C12_Witness ==
  /\ Finished
  /\ outcome = Ok
  /\ Len(nodes) = 1
  /\ Len(nodes[1].attrs) = 2
  /\ nodes[1].attrs[1].value = <<"1", "&", "2">>
  /\ nodes[1].attrs[2].value = <<"3">>
  /\ parse_one_quoted_value(5, "'", "parse_attribute_values").k = "S"
  /\ parse_one_quoted_value(17, "\"", "parse_attribute_values").k = "S"

(***************************************************************************)
(* The shape of the tree.                                                  *)
(***************************************************************************)
\* the element that is open, 0 for the root of the document
Innermost(open) == IF open = <<>> THEN 0 ELSE Last(open)

\* the nodes the calls of the sink stand for, in the order of the calls, each
\* with the element that is open when it is made: open are the elements
\* that have started and not ended, name is the name of the last element
\* start and n the number of nodes made so far
RECURSIVE Replay(_, _, _, _)
Replay(evs, open, name, n) ==
  IF evs = <<>> THEN <<>>
  ELSE LET e == Head(evs)
           made(type, txt, value) ==
             <<[type |-> type, text |-> txt, value |-> value,
                parent |-> Innermost(open)]>>
       IN  CASE e.e = "element_start" -> Replay(Tail(evs), open, e.a, n)
             [] e.e = "attributes_end" ->
                  made("element", name.local_part, <<>>)
                    \o Replay(Tail(evs), Append(open, n + 1), name, n + 1)
             [] e.e = "element_end" ->
                  Replay(Tail(evs), SubSeq(open, 1, Len(open) - 1), name, n)
             [] e.e = "text" ->
                  made("text", e.a, <<>>) \o Replay(Tail(evs), open, name, n + 1)
             [] e.e = "reference" ->
                  made("text", <<Decoded(e.a)>>, <<>>)
                    \o Replay(Tail(evs), open, name, n + 1)
             [] e.e = "comment" ->
                  made("comment", e.a, <<>>)
                    \o Replay(Tail(evs), open, name, n + 1)
             [] e.e = "processing_instruction" ->
                  made("pi", e.a, e.b) \o Replay(Tail(evs), open, name, n + 1)
             [] OTHER -> Replay(Tail(evs), open, name, n)

\* the nodes of r that have the parent, in the order they are made
ChildrenOf(r, parent) ==
  SelectSeq([i \in 1..Len(r) |-> i], LAMBDA i : r[i].parent = parent)

\* C13: the text of a run of character data, of a CDATA section and of a
\* comment is sent to the sink as it stands in the input, a reference in a
\* CDATA section is not read as one; and when parse returns a document, its
\* nodes are the content items, comments and processing instructions the
\* sink was called with, in the order of the calls, each one the child of
\* the element that was open at its call, or of the root of the document;
\* the children of an element and of the root are in this order.
C13_TreeShape ==
  /\ [](Parsed =>
          \A p \in Points :
            /\ parse_char_data(p).k = "S" =>
                 /\ parse_char_data(p).pt > p
                 /\ parse_char_data(p).ev =
                      <<Ev("text", SubSeq(input, p + 1, parse_char_data(p).pt),
                           <<>>)>>
            /\ parse_cdata(p).k = "S" =>
                 parse_cdata(p).ev =
                   <<Ev("text", SubSeq(input, p + 10, parse_cdata(p).pt - 3),
                        <<>>)>>
            /\ parse_comment(p).k = "S" =>
                 parse_comment(p).ev =
                   <<Ev("comment",
                        SubSeq(input, p + 5, parse_comment(p).pt - 3), <<>>)>>)
  /\ [](Finished /\ outcome = Ok =>
          LET r == Replay(emitted, <<>>, PrefixedName(<<>>, <<>>), 0)
          IN  /\ Len(nodes) = Len(r)
              /\ \A i \in DOMAIN r :
                   /\ nodes[i].type = r[i].type
                   /\ nodes[i].parent = r[i].parent
                   /\ nodes[i].value = r[i].value
                   /\ IF r[i].type = "element"
                      THEN /\ nodes[i].name.local = r[i].text
                           /\ nodes[i].children = ChildrenOf(r, i)
                      ELSE /\ nodes[i].text = r[i].text
                           /\ nodes[i].children = <<>>
              /\ rootChildren = ChildrenOf(r, 0))

\* C13 witness: the document of <a><![CDATA[&lt;]]>&lt;<b/>t</a>: a has the
\* text &lt; of the CDATA section, the text < of the reference, the element
\* b and the text t
C13_Witness ==
  /\ Finished
  /\ outcome = Ok
  /\ rootChildren = <<1>>
  /\ nodes[1].children = <<2, 3, 4, 5>>
  /\ nodes[2].text = <<"&", "l", "t", ";">>
  /\ nodes[3].text = <<"<">>
  /\ nodes[4].type = "element"
  /\ nodes[5].text = <<"t">>

(***************************************************************************)
(* The document production.                                                *)
(***************************************************************************)
\* the elements among the children of the root of the document
RootElements == {i \in Range(rootChildren) : nodes[i].type = "element"}

\* where the prolog ends: after the declaration, if there is one, and the
\* miscs that follow
PrologEnd ==
  parse_miscs(optional(parse_xml_declaration(0), 0).pt).pt

\* C14: the root element is parsed where the declaration, if there is one,
\* and the miscs after it end; when it does not parse, parse_document fails
\* as it does, with the offset of a failure or with its panic, and parse
\* returns no document; a document that parse returns has exactly one
\* element among the children of its root, the element parsed there, and
\* parse_document has ended where the miscs after that element end.
C14_SingleRootElement ==
  /\ [](Parsed /\ prolog.k \in {"S", "P"} => prolog.pt = PrologEnd)
  /\ [][parse_element_return /\ frames = <<>> =>
          /\ ret.k \in {"F", "P"} => result'.k \in {"F", "P"}
          /\ ret.k = "X" => result'.k = "X"]_vars
  /\ [][parse_return => (outcome' = Ok <=> result.k = "S")]_vars
  /\ [](Finished /\ outcome = Ok =>
          /\ prolog.k \in {"S", "P"}
          /\ ret.k = "S"
          /\ parse_element_start(PrologEnd).k = "S"
          /\ result.pt = optional(parse_miscs(ret.pt), ret.pt).pt
          /\ Cardinality(RootElements) = 1
          /\ \A i \in RootElements :
               nodes[i].name.local
                 = parse_element_start(PrologEnd).d.name.local_part)
  /\ [](Finished /\ parse_element_start(PrologEnd).k # "S" => outcome # Ok)

\* C14 witness: the document of <?output printer?> <hello /> <?validated?>
\* with a space before it has the element between two processing
\* instructions
C14_Witness ==
  /\ Finished
  /\ outcome = Ok
  /\ rootChildren = <<1, 2, 3>>
  /\ RootElements = {2}
  /\ PrologEnd = 20

\* parse_document has parsed the root element, and the sink has returned
\* from the calls of that element
RootParsed == frames = <<>> /\ ret.k = "S" /\ result # NoResult

\* C15 as stated: once the root element is parsed, parse returns the
\* document whatever the input goes on with
C15_AnyRemainder == [](Finished /\ RootParsed => outcome = Ok)

\* C15: once the root element is parsed, parse_document succeeds at the end
\* of that element whatever failure the miscs after it stop at, and parse
\* returns the document although input remains; unless the miscs come to a
\* processing instruction with the target xml, whose panic ends the parse
\* with a fatal error.
C15_TrailingInput ==
  /\ [][parse_element_return /\ frames = <<>> /\ ret.k = "S" =>
          IF parse_miscs(ret.pt).k = "X"
          THEN /\ result'.k = "X"
               /\ result'.why = "Can't use xml as a PI target"
          ELSE /\ parse_miscs(ret.pt).k = "P"
               /\ result'.k = "S"
               /\ result'.pt = ret.pt
               /\ pending' = parse_miscs(ret.pt).ev]_vars
  /\ [](Finished /\ RootParsed =>
          IF parse_miscs(ret.pt).k = "X"
          THEN outcome = Fatal("Can't use xml as a PI target")
          ELSE outcome = Ok)

\* C15 witness: <a/><!-- is a document, the comment that does not end is a
\* failure of the miscs after the root element at the end of the input
C15_Witness ==
  /\ Finished
  /\ RootParsed
  /\ outcome = Ok
  /\ ret.pt = 4
  /\ Len(input) = 8
  /\ parse_miscs(4).k = "P"
  /\ parse_miscs(4).f = 8

(***************************************************************************)
(* Termination.                                                            *)
(***************************************************************************)
\* a successful result r of something tried at p ends after p, in the input
Advances(p, r) == r.k = "S" => p < r.pt /\ r.pt <= InputLen

\* a successful result r of something tried at p ends at p or after it
Stays(p, r) == r.k = "S" => p <= r.pt /\ r.pt <= InputLen

\* every consume that succeeds at p ends after p
StrictConsumes(p) ==
  /\ Advances(p, consume_space(p))
  /\ Advances(p, consume_decimal_chars(p))
  /\ Advances(p, consume_hex_chars(p))
  /\ Advances(p, consume_ncname(p))
  /\ Advances(p, consume_name(p))
  /\ Advances(p, consume_prefixed_name(p))
  /\ Advances(p, consume_start_tag(p))
  /\ Advances(p, consume_char_data(p))
  /\ \A quote \in {"'", "\""} : Advances(p, consume_attribute_value(p, quote))
  /\ \A lit \in {<<"<", "?">>, <<"?", ">">>, <<"-", "-", ">">>, <<">">>,
                 <<"/", ">">>, <<"<", "/">>, <<"=">>, <<"&">>, <<";">>} :
       Advances(p, consume_literal(p, lit))

\* the body of a comment, of a CDATA section and of a processing instruction
\* where it is read by the production
CommentBody(p) == consume_comment(p + 4)

CdataBody(p) == consume_cdata(p + 9)

\* parse is at a point where it can take a step: the grammar goes on, or
\* the sink is called with the next of the pending calls
CanStep ==
  \/ phase = "start"
  \/ Running("call") \/ Running("return") \/ Running("finish")
  \/ /\ phase \in {"call", "return", "finish"}
     /\ pending # <<>>
     /\ Head(pending).e \in
          {"element_start", "element_end", "comment",
           "processing_instruction", "text", "reference", "attributes_start",
           "attributes_end", "attribute_start", "attribute_value",
           "attribute_end"}

\* the number of sink calls the grammar has asked for
Produced == Len(emitted) + Len(pending)

PhaseRank ==
  CASE phase = "start" -> 4 [] phase = "call" -> 3 [] phase = "return" -> 2
    [] phase = "finish" -> 1 [] OTHER -> 0

\* what every step of parse makes greater: each component is bounded, so
\* parse takes finitely many steps
Variant ==
  <<Produced, 0 - Len(frames), Cursor, 0 - PhaseRank, 0 - Len(pending)>>

\* v is before w in the lexicographic order
Grows(v, w) ==
  \E i \in DOMAIN v :
    /\ v[i] < w[i]
    /\ \A j \in 1..(i - 1) : v[j] = w[j]

IsPrefix(s, t) == Len(s) <= Len(t) /\ SubSeq(t, 1, Len(s)) = s

\* the elements that are open after the sink calls evs: the nodes made by an
\* attributes_end with no element_end yet; n is the number of nodes made
RECURSIVE OpenAfter(_, _, _)
OpenAfter(evs, open, n) ==
  IF evs = <<>> THEN open
  ELSE LET e == Head(evs)
       IN  CASE e.e = "attributes_end" ->
                  OpenAfter(Tail(evs), Append(open, n + 1), n + 1)
             [] e.e = "element_end" ->
                  OpenAfter(Tail(evs), SubSeq(open, 1, Len(open) - 1), n)
             [] e.e \in {"text", "reference", "comment",
                         "processing_instruction"} ->
                  OpenAfter(Tail(evs), open, n + 1)
             [] OTHER -> OpenAfter(Tail(evs), open, n)

\* the name of the attribute that parse_attribute reads at p, if it comes
\* to a name
AttributeName(p) ==
  LET r1 == consume_space(p)
  IN  IF r1.k = "S" THEN consume_prefixed_name(r1.pt) ELSE r1

\* node i is where it was appended
Attached(i) ==
  IF nodes[i].parent = 0 THEN i \in Range(rootChildren)
  ELSE i \in Range(nodes[nodes[i].parent].children)

\* C17: a production that fails has made its sink calls all the same: an
\* attribute that fails after its name has called attribute_start, and a
\* start tag that comes to a name has called element_start, attributes_start
\* and attributes_end whatever its attributes stopped at; when parse_element
\* fails, its calls are sent to the sink and there is no element_end among
\* them.  The hydrator undoes nothing: no step takes a call back, removes a
\* node or detaches it; only element_end takes an element off the stack, so
\* an element whose tail fails stays on the stack and stays the child of its
\* parent or of the root; and only attributes_end takes attributes out of
\* the deferred buffer, so an attribute that failed after attribute_start
\* is applied, with the fragments it got so far, at the attributes_end of
\* its element.
C17_NoRollback ==
  /\ [](Parsed =>
          \A p \in Points :
            /\ AttributeName(p).k = "S" /\ parse_attribute(p).k # "X" =>
                 /\ parse_attribute(p).ev # <<>>
                 /\ parse_attribute(p).ev[1]
                      = Ev("attribute_start", AttributeName(p).d, <<>>)
            /\ LET r == parse_element_start(p)
                   name == consume_prefixed_name(p + 1)
               IN  consume_start_tag(p).k = "S" /\ name.k = "S" /\ r.k # "X"
                     => /\ Len(r.ev) >= 3
                        /\ r.ev[1] = Ev("element_start", name.d, <<>>)
                        /\ r.ev[2].e = "attributes_start"
                        /\ r.ev[Len(r.ev)].e = "attributes_end")
  /\ [][parse_element_call \/ parse_element_return =>
          /\ parse_element_call /\ phase' = "return" /\ ret'.k = "F" =>
               pending' = parse_element_start(Cursor).ev
          /\ phase' = "return" /\ ret'.k # "S" =>
               \A i \in DOMAIN pending' : pending'[i].e # "element_end"]_vars
  /\ [][/\ IsPrefix(emitted, emitted')
        /\ IsPrefix(rootChildren, rootChildren')
        /\ Len(nodes) <= Len(nodes')
        /\ \A i \in DOMAIN nodes :
             /\ nodes'[i].parent = nodes[i].parent
             /\ IsPrefix(nodes[i].children, nodes'[i].children)]_vars
  /\ [][IF element_end THEN TRUE
        ELSE IsPrefix(stack, stack')]_vars
  /\ [][IF attributes_end THEN attributes' = <<>>
        ELSE IsPrefix(attributes, attributes') \/
             (Len(attributes') = Len(attributes) /\
              \A i \in DOMAIN attributes :
                /\ attributes'[i].name = attributes[i].name
                /\ IsPrefix(attributes[i].values,
                            attributes'[i].values))]_vars
  /\ [](outcome.kind # "Fatal" =>
          /\ stack = OpenAfter(emitted, <<>>, 0)
          /\ \A i \in DOMAIN nodes : Attached(i))
  /\ [][attributes_end /\ outcome'.kind # "Fatal" /\ attributes # <<>> =>
          LET a == Last(attributes)
              e == nodes'[Last(stack')]
          IN  IF is_namespace_declaration(a)
              THEN lookup_prefix(e.prefixes, a.name.local_part)
                     = <<Assembled(a.values)>>
              ELSE \E b \in Range(e.attrs) :
                     /\ b.name.local = a.name.local_part
                     /\ b.value = Assembled(a.values)]_vars

\* C17 witness: <a x/> has failed: the attribute x failed after
\* attribute_start, it is an attribute of the element a, which failed after
\* attributes_end and is the child of the root and on the stack
C17_Witness ==
  /\ Finished
  /\ outcome.kind = "Err"
  /\ Len(input) = 6
  /\ Count(emitted, "attribute_start") = 1
  /\ Count(emitted, "attribute_end") = 0
  /\ Count(emitted, "element_end") = 0
  /\ stack = <<1>>
  /\ rootChildren = <<1>>
  /\ Len(nodes[1].attrs) = 1
  /\ nodes[1].attrs[1].name.local = <<"x">>

(***************************************************************************)
(* Productions that are given up.                                          *)
(***************************************************************************)
\* the start tag at p has called element_start and attributes_end
Started(p) == parse_element_start(p).ev # <<>>

\* the attributes of the start tag r4 stopped at an attribute that had called
\* attribute_start
AttributeGivenUp(r4) ==
  /\ r4.k = "S"
  /\ AttributeName(r4.d.attributes.pt).k = "S"

\* C18: a start tag whose attributes stop at an attribute that failed after
\* attribute_start has no tail, so its element fails; when an element
\* that has called element_start and attributes_end fails in the content of
\* an element, no other item of content parses where it started, the content
\* ends there, the end tag is not found and the enclosing element fails as
\* well; when the root element fails, parse_document fails and parse returns
\* no document.  In a document that parse returns, every element that was
\* started has ended, every attribute that was started has ended, and the
\* hydrator has no open element, no pending name and no deferred attribute.
C18_AbandonedBranches ==
  /\ [](Parsed =>
          \A p \in Points :
            LET r4 == parse_element_start(p)
            IN  AttributeGivenUp(r4) =>
                  /\ parse_empty_element_tail(r4.pt).k = "F"
                  /\ consume_literal(r4.pt, <<">">>).k = "F"
                  /\ parse_element(r4, Failure(r4.pt)).k = "F")
  /\ [][parse_element_call /\ AttributeGivenUp(parse_element_start(Cursor)) =>
          phase' = "return" /\ ret'.k = "F"]_vars
  /\ [][parse_element_return /\ frames # <<>> =>
          (ret.k = "F" /\ Started(Cursor) =>
             /\ parse_rest_of_contents(Top.z, ret).k = "P"
             /\ parse_rest_of_contents(Top.z, ret).pt = Cursor
             /\ parse_element_end(Cursor).k = "F"
             /\ phase' = "return"
             /\ ret'.k = "F"
             /\ Len(frames') = Len(frames) - 1)]_vars
  /\ [][parse_element_return /\ frames = <<>> =>
          (ret.k = "F" => result'.k = "F")]_vars
  /\ [][parse_return /\ result.k = "F" => outcome'.kind = "Err"]_vars
  /\ [](Finished /\ outcome = Ok =>
          /\ Count(emitted, "element_start") = Count(emitted, "element_end")
          /\ Count(emitted, "attributes_end") = Count(emitted, "element_end")
          /\ Count(emitted, "attribute_start")
               = Count(emitted, "attribute_end")
          /\ stack = <<>>
          /\ element = <<>>
          /\ attributes = <<>>)

\* C18 witness: <a><a x='1 with a line end after it has failed: the value of
\* x does not end, the inner element is given up after attributes_end and
\* the outer one fails after it; both are on the stack
C18_Witness ==
  /\ input = <<"<", "a", ">", "<", "a", " ", "x", "=", "'", "1", "\n">>
  /\ Finished
  /\ outcome.kind = "Err"
  /\ Count(emitted, "attributes_end") = 2
  /\ Count(emitted, "attribute_start") = 1
  /\ Count(emitted, "attribute_end") = 0
  /\ Count(emitted, "element_end") = 0
  /\ stack = <<1, 2>>

(***************************************************************************)
(* What the hydrator relies on.                                            *)
(***************************************************************************)
\* the last of the sink calls made so far that is a call of e, or 0
LastCall(e) ==
  IF \E i \in DOMAIN emitted : emitted[i].e = e
  THEN CHOOSE i \in DOMAIN emitted :
         /\ emitted[i].e = e
         /\ \A j \in DOMAIN emitted : j > i => emitted[j].e # e
  ELSE 0

\* C19: whenever the grammar calls text or reference an element is open;
\* whenever it calls attributes_end the pending name is the name of the last
\* element_start, which no attributes_end has taken yet; whenever it calls
\* attribute_value an attribute is in the deferred buffer, the one of the
\* last attribute_start; after attributes_end, panic or not, the pending
\* name and the deferred buffer are empty.  No parse ends by the panic of a
\* text without an open element.
C19_HydratorPreconditions ==
  /\ [][text \/ reference => stack # <<>>]_vars
  /\ [][attributes_end =>
          /\ element # <<>>
          /\ LastCall("element_start") > LastCall("attributes_end")
          /\ element = <<emitted[LastCall("element_start")].a>>
          /\ element' = <<>>
          /\ attributes' = <<>>]_vars
  /\ [][attribute_value =>
          /\ attributes # <<>>
          /\ LastCall("attribute_start") > LastCall("attributes_end")
          /\ Last(attributes).name
               = emitted[LastCall("attribute_start")].a]_vars
  /\ [](outcome.why # "No element to append to")

\* C19 witness: parse has returned the document of
\* <a x='1'>t&amp;<b y="2"/></a>, after two attributes_end, two
\* attribute_value, a text and a reference
C19_Witness ==
  /\ Finished
  /\ outcome = Ok
  /\ Count(emitted, "attributes_end") = 2
  /\ Count(emitted, "attribute_value") = 2
  /\ Count(emitted, "text") = 1
  /\ Count(emitted, "reference") = 1
  /\ nodes[1].children = <<2, 3, 4>>

(***************************************************************************)
(* An input that starts like a declaration and is none.                    *)
(***************************************************************************)
\* the input begins with <?xml and the declaration does not parse
NoDeclaration ==
  /\ starts_with(0, <<"<", "?", "x", "m", "l">>)
  /\ parse_xml_declaration(0).k # "S"

\* ?> stands somewhere in the input
ContainsClose == \E q \in Points : starts_with(q, <<"?", ">">>)

\* C20 as stated: an input that begins with <?xml, is no declaration and
\* contains ?> ends in the fatal error of the reserved target
C20_AlwaysReservedTarget ==
  [](Finished /\ NoDeclaration /\ ContainsClose =>
       outcome = Fatal("Can't use xml as a PI target"))

\* C20: when the input begins with <?xml and the declaration does not parse,
\* the prolog reads it again from the start as a misc.  When a complete
\* processing instruction stands there and its target is xml, parse ends in
\* the fatal error of the reserved target and the sink is never called;
\* when its target is a longer name that begins with xml, it is an ordinary
\* processing instruction, the first call of the sink; and when no complete
\* processing instruction stands there (there is no ?>, or the target xml is
\* followed by something that is neither a space nor ?>), parse fails with
\* an offset.
C20_DeclarationFallback ==
  /\ [][parse_start /\ NoDeclaration =>
          /\ optional(parse_xml_declaration(0), 0).pt = 0
          /\ IF ReservedPi(0)
             THEN /\ phase' = "finish"
                  /\ result'.k = "X"
                  /\ result'.why = "Can't use xml as a PI target"
                  /\ pending' = <<>>
             ELSE IF CompletePi(0)
             THEN /\ phase' = "call"
                  /\ pending' # <<>>
                  /\ pending'[1].e = "processing_instruction"
                  /\ pending'[1].a = PiTarget(0)
                  /\ Len(PiTarget(0)) > 3
                  /\ SubSeq(PiTarget(0), 1, 3) = <<"x", "m", "l">>
             ELSE /\ prolog'.pt = 0
                  /\ pending' = <<>>]_vars
  /\ [](Finished /\ NoDeclaration =>
          /\ ReservedPi(0) =>
               /\ outcome = Fatal("Can't use xml as a PI target")
               /\ emitted = <<>>
          /\ ~CompletePi(0) => outcome.kind = "Err" /\ emitted = <<>>
          /\ CompletePi(0) /\ ~ReservedPi(0) =>
               outcome # Fatal("Can't use xml as a PI target"))

\* C20 witness: <?xml version=1.0?><a/>, where the version is not quoted, has
\* ended in the fatal error of the reserved target
C20_Witness ==
  /\ Finished
  /\ NoDeclaration
  /\ ContainsClose
  /\ ReservedPi(0)
  /\ Len(input) = 23
  /\ input[6] = " "
  /\ input[15] = "1"
  /\ outcome = Fatal("Can't use xml as a PI target")
  /\ emitted = <<>>

====
